---------------------------- MODULE Spec2Model ----------------------------
(***************************************************************************)
(* State-machine model of the FTDI asynchronous bit-bang stack:            *)
(*   FTDIAsyncBB.py  (IOPin, Port, SPI)                                    *)
(*   MCP23S17.py     (MCP23S17 register protocol)                          *)
(* Sequential Python code is modelled by state-passing operators on a      *)
(* record P holding the mutable state a call can touch; every action of a  *)
(* specification runs one whole public call and stores the result.         *)
(***************************************************************************)
EXTENDS Integers, Sequences, FiniteSets, TLC

VARIABLES
    pin_list,         \* Port.pin_list: the IOPin objects, in list order
    debug_mode,       \* Port.debug_mode
    ftd,              \* Port.ftd: "none" | "open" | "closed"
    txd_buf,          \* Port.txd_buf
    signal_history,   \* Port.signal_history
    debug_read_data,  \* Port._debug_read_data
    output_pins,      \* Port.output_pins
    input_pins,       \* Port.input_pins
    port,             \* outcome of Port.__init__: "new" | "ok" | "ValueError" | "OSError"
    spi,              \* SPI object: [state, ck, txd, rxd] (pin numbers)
    mcp,              \* MCP23S17 object: [state, cs, reset] (pin numbers)
    dev,              \* the hardware behind the link (ftd.write / ftd.getBitMode)
    open_fail,        \* how many ftd2xx.open attempts fail before one succeeds
    open_attempts,    \* ftd2xx.open attempts made by Port.__init__
    link_calls,       \* configuration calls made on the handle by Port.__init__
    log,              \* link events of the most recent call, in order
    op,               \* the most recent call: [name, a1, a2, a3]
    ret,              \* value returned by the most recent call (-1: None)
    nops,             \* calls made since Port construction
    nsets,            \* client assignments to pin.value made so far
    client_resets,    \* reset_devices() calls made by the client (not by __init__)
    given,            \* arguments of the run: [d, r, v]
    monitor,          \* a register device listening to every byte flushed
    run               \* MainControl._run_cb: its position, arguments and locals

vars == <<pin_list, debug_mode, ftd, txd_buf, signal_history, debug_read_data,
          output_pins, input_pins, port, spi, mcp, dev, open_fail,
          open_attempts, link_calls, log, op, ret, nops, nsets, client_resets,
          given, monitor, run>>

------------------------------------------------------------------------------
(* Program constants *)

TXD_PACKET_MAX == 16
MAX_OPEN_RETRY == 5
SIGNAL_LOG_SIZE == 100

(* Bounds of the model *)

MaxPins == 3          \* longest enumerated pin list
MaxOps == 5           \* calls per run after Port construction
MaxFill == 17         \* set_pins calls per run where the buffer is filled
MaxPinSets == 1       \* client pin.value assignments per run
MaxRegOps == 2        \* register-protocol calls per run after construction
MaxSpiOps == 3        \* send_byte / receive_byte calls per run
MaxOpenFail == 7      \* most open attempts that fail before one succeeds
MaxWireOps == 2       \* calls per run of a client of the SPI and the Port
MaxHist == 104        \* set_pins calls per run where the history overflows
MaxShortOps == 18     \* set_pins calls per run on a link with short writes
MaxPlan == 2          \* writes per run whose accepted length is chosen

------------------------------------------------------------------------------
(* Python integer operators on the bits 0..7 *)

Bit(x, i) == (x \div (2^i)) % 2

\* a & b, a | b, a & ~b for masks of eight bits
BitAnd(a, b) ==
    LET f[i \in 0..8] ==
            IF i = 8 THEN 0 ELSE (2^i) * (Bit(a, i) * Bit(b, i)) + f[i + 1]
    IN  f[0]

BitOr(a, b) ==
    LET f[i \in 0..8] ==
            IF i = 8 THEN 0
            ELSE (2^i) * (IF Bit(a, i) + Bit(b, i) > 0 THEN 1 ELSE 0) + f[i + 1]
    IN  f[0]

BitAndNot(a, b) ==
    LET f[i \in 0..8] ==
            IF i = 8 THEN 0 ELSE (2^i) * (Bit(a, i) * (1 - Bit(b, i))) + f[i + 1]
    IN  f[0]

------------------------------------------------------------------------------
(* IOPin *)

\* IOPin.__init__: the name is used for diagnostics only and is left out
IOPin(num, is_output, init_val) ==
    [isPin |-> TRUE, no |-> num, is_output |-> is_output,
     value |-> IF init_val # 0 THEN 1 ELSE 0]

\* a list entry that is not an IOPin (the test passes integers)
NonPin == [isPin |-> FALSE, no |-> 0, is_output |-> FALSE, value |-> 0]


------------------------------------------------------------------------------
(* Port.__init__: the pin definition list *)

\* lines 69-83: the first defect found in list order raises ValueError
RECURSIVE PinListError(_, _, _)
PinListError(pl, i, active_pin_mask) ==
    IF i > Len(pl) THEN FALSE
    ELSE IF ~pl[i].isPin THEN TRUE
    ELSE IF ~(0 <= pl[i].no /\ pl[i].no < 8) THEN TRUE
    ELSE IF BitAnd(2^(pl[i].no), active_pin_mask) # 0 THEN TRUE
    ELSE PinListError(pl, i + 1, BitOr(active_pin_mask, 2^(pl[i].no)))

\* mutant: an empty list is accepted
PinListRejected_EmptyOk(pl) == PinListError(pl, 1, 0)

PinListRejected(pl) == Len(pl) = 0 \/ PinListError(pl, 1, 0)

\* lines 72, 89: active_pin_mask after the loop
RECURSIVE ActivePinMask(_, _)
ActivePinMask(pl, i) ==
    IF i = 0 THEN 0 ELSE BitOr(ActivePinMask(pl, i - 1), 2^(pl[i].no))

\* lines 73, 90-91: output_pin_mask after the loop
RECURSIVE OutputPinMask(_, _)
OutputPinMask(pl, i) ==
    IF i = 0 THEN 0
    ELSE IF pl[i].is_output
         THEN BitOr(OutputPinMask(pl, i - 1), 2^(pl[i].no))
         ELSE OutputPinMask(pl, i - 1)

\* mutant: the output bits are not removed from the input mask
InputPinMask_NoClear(pl) == ActivePinMask(pl, Len(pl))

\* line 97: self.input_pins = active_pin_mask & ~output_pin_mask
InputPinMask(pl) ==
    BitAndNot(ActivePinMask(pl, Len(pl)), OutputPinMask(pl, Len(pl)))

\* line 93: pin.value = 0 if pin.value == 0 else 1
NormalizeValues(pl) ==
    [i \in 1..Len(pl) |-> [pl[i] EXCEPT !.value = IF @ = 0 THEN 0 ELSE 1]]

\* Port.get_pin_object: the position in pin_list of the pin numbered pin_no,
\* 0 for None
PinIndex(pl, pin_no) ==
    IF \E i \in 1..Len(pl) : pl[i].no = pin_no
    THEN CHOOSE i \in 1..Len(pl) : pl[i].no = pin_no
    ELSE 0

------------------------------------------------------------------------------
(* The hardware behind the link.  ftd.write(bytes) puts each byte on the    *)
(* eight pins in turn and ftd.getBitMode() returns the instantaneous pin    *)
(* levels.  Two devices can be attached to the pins: a loop-back shift      *)
(* register ("loop") and a register device that decodes                     *)
(* opcode/register/data frames ("mcp").  The device is wired as the         *)
(* application wires it.                                                    *)

PIN_CK == 0
PIN_TXD == 1
PIN_RXD == 2
PIN_CS == 3
PIN_RESET == 5

NoFrame == [nbits |-> 0, opc |-> 0, reg |-> 0, data |-> 0, out |-> 0]

DevInit(kind) ==
    [kind |-> kind,
     prev |-> 0,              \* levels of the eight pins
     sh |-> 0,                \* loop-back shift register
     miso |-> 0,              \* level the device drives on data-in
     fr |-> NoFrame,          \* frame being clocked in while chip-select is low
     mem |-> {},              \* registers written: <<device, register, byte>>
     haen |-> FALSE,          \* address-enable write received since the last reset
     frames |-> << >>,        \* frames completed during the most recent call
     resets |-> 0,            \* reset pulses seen during the most recent call
     unaddressed |-> FALSE]   \* a non-zero device address was used without haen

MemRead(mem, d, r) ==
    IF \E t \in mem : t[1] = d /\ t[2] = r
    THEN (CHOOSE t \in mem : t[1] = d /\ t[2] = r)[3]
    ELSE 0

MemWrite(mem, d, r, v) ==
    {t \in mem : ~(t[1] = d /\ t[2] = r)} \cup {<<d, r, v>>}

FrameDev(fr) == (fr.opc \div 2) % 8
FrameIsRead(fr) == fr.opc % 2 = 1
FrameValid(fr) == fr.opc \div 16 = 4

\* one rising clock edge while chip-select is low: shift data-out in
FrameClock(fr, mosi, mem) ==
    LET n == fr.nbits + 1 IN
    IF n <= 8 THEN [fr EXCEPT !.nbits = n, !.opc = 2 * @ + mosi]
    ELSE IF n <= 16
         THEN LET g == [fr EXCEPT !.nbits = n, !.reg = 2 * @ + mosi]
              IN  IF n = 16
                  THEN [g EXCEPT !.out = MemRead(mem, FrameDev(g), g.reg)]
                  ELSE g
    ELSE IF n <= 24 THEN [fr EXCEPT !.nbits = n, !.data = 2 * @ + mosi]
    ELSE [fr EXCEPT !.nbits = n]

LoopStep(d, b) ==
    LET rise == Bit(d.prev, PIN_CK) = 0 /\ Bit(b, PIN_CK) = 1
        fall == Bit(d.prev, PIN_CK) = 1 /\ Bit(b, PIN_CK) = 0
        sh1 == IF rise THEN (2 * d.sh + Bit(b, PIN_TXD)) % 256 ELSE d.sh
    IN  [d EXCEPT !.prev = b, !.sh = sh1,
                  !.miso = IF fall THEN Bit(sh1, 7) ELSE @]

McpStep(d, b) ==
    LET rise == Bit(d.prev, PIN_CK) = 0 /\ Bit(b, PIN_CK) = 1
        fall == Bit(d.prev, PIN_CK) = 1 /\ Bit(b, PIN_CK) = 0
        csl == Bit(b, PIN_CS) = 0
        wascsl == Bit(d.prev, PIN_CS) = 0
    IN  IF Bit(b, PIN_RESET) = 0
        THEN \* reset line low: power-on defaults
             [d EXCEPT !.prev = b, !.miso = 0, !.fr = NoFrame, !.mem = {},
                       !.haen = FALSE,
                       !.resets = IF Bit(d.prev, PIN_RESET) = 1 THEN @ + 1 ELSE @]
        ELSE IF ~csl
        THEN \* chip-select released: the frame, if any, is complete
             [d EXCEPT !.prev = b, !.miso = 0, !.fr = NoFrame,
                       !.frames = IF wascsl /\ d.fr.nbits > 0
                                  THEN Append(@, d.fr) ELSE @]
        ELSE IF rise
        THEN CHOOSE r \in
               {LET wr == g.nbits = 24 /\ FrameValid(g) /\ ~FrameIsRead(g)
                IN  [d EXCEPT !.prev = b, !.fr = g,
                           !.mem = IF wr THEN MemWrite(@, FrameDev(g), g.reg, g.data)
                                   ELSE @,
                           !.haen = @ \/ (wr /\ FrameDev(g) = 0 /\ g.reg = 10
                                             /\ Bit(g.data, 3) = 1),
                           !.unaddressed = @ \/ (g.nbits = 8 /\ FrameValid(g)
                                                 /\ FrameDev(g) # 0 /\ ~d.haen)] :
                   g \in {FrameClock(d.fr, Bit(b, PIN_TXD), d.mem)}} : TRUE
        ELSE IF fall
        THEN [d EXCEPT !.prev = b,
                       !.miso = IF FrameValid(d.fr) /\ FrameIsRead(d.fr)
                                   /\ d.fr.nbits >= 16 /\ d.fr.nbits < 24
                                THEN Bit(d.fr.out, 23 - d.fr.nbits) ELSE 0]
        ELSE [d EXCEPT !.prev = b]

DevStep(d, b) ==
    CHOOSE r \in {IF e.kind = "loop" THEN LoopStep(e, b) ELSE McpStep(e, b) :
                     e \in {d}} : TRUE

\* ftd.write(xbuf): the bytes appear on the pins one by one
RECURSIVE LinkWrite(_, _)
LinkWrite(d, bytes) ==
    IF Len(bytes) = 0 THEN d
    ELSE CHOOSE r \in {LinkWrite(e, Tail(bytes)) : e \in {DevStep(d, Head(bytes))}} :
             TRUE

\* A link that can report short writes: plan lists, for its next writes, how
\* many bytes each accepts at most (later writes are accepted in full), and
\* rx lists the bytes accepted so far.
FaultyLink(plan) == [plan |-> plan, rx |-> << >>] @@ DevInit("loop")

\* n_written of ftd.write(bytes)
LinkAccepts(d, bytes) ==
    IF "plan" \in DOMAIN d /\ Len(d.plan) > 0 /\ Head(d.plan) < Len(bytes)
    THEN Head(d.plan) ELSE Len(bytes)

\* line 180: n_written = self.ftd.write(xbuf); the link takes the first
\* n_written bytes
LinkSend(d, bytes) ==
    IF "plan" \in DOMAIN d
    THEN CHOOSE r \in
           {[LinkWrite(d, acc) EXCEPT
                !.plan = IF Len(@) > 0 THEN Tail(@) ELSE @,
                !.rx = @ \o acc] :
               acc \in {SubSeq(bytes, 1, LinkAccepts(d, bytes))}} : TRUE
    ELSE LinkWrite(d, bytes)

\* ftd.getBitMode(): the output levels last written and the device's data-in
LinkRead(d) == BitOr(d.prev, d.miso * (2^PIN_RXD))

------------------------------------------------------------------------------
(* Port: the calls below pass the mutable state as a record                 *)
(*   P = [pins, txd, hist, dev, log]                                        *)
(* pins: pin_list with the current pin values, txd: txd_buf,                *)
(* hist: signal_history, dev: the hardware, log: link events of the call.   *)

FlushEvent(data) ==
    [t |-> "flush", data |-> data, link |-> ~debug_mode, val |-> 0, pending |-> 0]

ReadEvent(raw_val, pending) ==
    [t |-> "read", data |-> << >>, link |-> ~debug_mode, val |-> raw_val,
     pending |-> pending]

\* Port._assemble_write_data
RECURSIVE AssembleFrom(_, _)
AssembleFrom(pins, i) ==
    IF i = 0 THEN 0
    ELSE IF ~pins[i].is_output \/ pins[i].value = 0
         THEN AssembleFrom(pins, i - 1)
         ELSE BitOr(AssembleFrom(pins, i - 1), 2^(pins[i].no))

\* mutant: the direction of the pin is not looked at
RECURSIVE AssembleAnyPin(_, _)
AssembleAnyPin(pins, i) ==
    IF i = 0 THEN 0
    ELSE IF pins[i].value = 0
         THEN AssembleAnyPin(pins, i - 1)
         ELSE BitOr(AssembleAnyPin(pins, i - 1), 2^(pins[i].no))

AssembleWriteData_AnyPin(pins) == AssembleAnyPin(pins, Len(pins))

AssembleWriteData(pins) == AssembleFrom(pins, Len(pins))

\* mutant: once the history is full the newest entries are the ones dropped
HistoryAppend_KeepOldest(hist, buf) ==
    LET h == hist \o buf
    IN  IF Len(h) > SIGNAL_LOG_SIZE THEN SubSeq(h, 1, SIGNAL_LOG_SIZE) ELSE h

\* lines 172-175: append to the signal history and drop the oldest entries
HistoryAppend(hist, buf) ==
    LET h == hist \o buf
        n_over == Len(h) - SIGNAL_LOG_SIZE
    IN  IF n_over > 0 THEN SubSeq(h, n_over + 1, Len(h)) ELSE h

\* mutant: the bytes a short write did not accept stay in the buffer
FlushTxbuf_KeepUnsent(P) ==
    CHOOSE R \in
        {IF Len(Q.txd) = 0 THEN Q
         ELSE [Q EXCEPT !.hist = HistoryAppend(@, Q.txd),
                        !.dev = IF debug_mode THEN @ ELSE LinkSend(@, Q.txd),
                        !.log = Append(@, FlushEvent(Q.txd)),
                        !.txd = IF debug_mode THEN << >>
                                ELSE SubSeq(@, LinkAccepts(Q.dev, Q.txd) + 1,
                                            Len(@))] : Q \in {P}} : TRUE

\* Port._flush_txbuf
FlushTxbuf(P) ==
    CHOOSE R \in
        {IF Len(Q.txd) = 0 THEN Q
         ELSE [Q EXCEPT !.hist = HistoryAppend(@, Q.txd),
                        !.dev = IF debug_mode THEN @ ELSE LinkSend(@, Q.txd),
                        !.log = Append(@, FlushEvent(Q.txd)),
                        !.txd = << >>] : Q \in {P}} : TRUE

\* the value of a state expression, computed once
Now(P) == CHOOSE Q \in {P} : TRUE

\* mutant: at the packet limit the buffer is sent without the pin state just
\* assembled, which is dropped
SetPins_DropAtLimit(P, flush) ==
    CHOOSE R \in
        {IF flush THEN FlushTxbuf(Q)
         ELSE IF Len(Q.txd) >= TXD_PACKET_MAX THEN FlushTxbuf(S)
         ELSE Q :
            <<S, Q>> \in {<<S0, [S0 EXCEPT !.txd =
                                    Append(@, AssembleWriteData(S0.pins))]>> :
                              S0 \in {P}}} : TRUE

\* mutant: the buffer is sent only once it exceeds the packet limit
SetPins_Late(P, flush) ==
    CHOOSE R \in
        {IF flush \/ Len(Q.txd) > TXD_PACKET_MAX THEN FlushTxbuf(Q) ELSE Q :
            Q \in {[S EXCEPT !.txd = Append(@, AssembleWriteData(S.pins))] :
                       S \in {P}}} : TRUE

\* Port.set_pins(flush)
SetPins(P, flush) ==
    CHOOSE R \in
        {IF flush \/ Len(Q.txd) >= TXD_PACKET_MAX THEN FlushTxbuf(Q) ELSE Q :
            Q \in {[S EXCEPT !.txd = Append(@, AssembleWriteData(S.pins))] :
                       S \in {P}}} : TRUE

\* mutant: the snapshot bits are copied to every pin
UpdateInputs_AllPins(pins, raw_val) ==
    [i \in 1..Len(pins) |-> [pins[i] EXCEPT !.value = Bit(raw_val, pins[i].no)]]

\* lines 239-242: copy the snapshot bits to the input pins
UpdateInputs(pins, raw_val) ==
    [i \in 1..Len(pins) |->
        IF pins[i].is_output THEN pins[i]
        ELSE [pins[i] EXCEPT !.value = Bit(raw_val, pins[i].no)]]

\* Port.get_pins
GetPins(P) ==
    IF debug_mode
    THEN CHOOSE R \in
             {[S EXCEPT !.pins = UpdateInputs(@, debug_read_data),
                        !.log = Append(@, ReadEvent(debug_read_data, Len(S.txd)))] :
                 S \in {P}} : TRUE
    ELSE CHOOSE R \in
             {[Q EXCEPT !.pins = UpdateInputs(@, LinkRead(Q.dev)),
                        !.log = Append(@, ReadEvent(LinkRead(Q.dev), Len(Q.txd)))] :
                 Q \in {FlushTxbuf(Now(P))}} : TRUE

\* assignment to pin.value of the pin at position i of pin_list
SetValue(P, i, v) == [P EXCEPT !.pins[i].value = v]

\* the state a call starts from: the events and the device's per-call
\* counters start empty
Enter ==
    [pins |-> pin_list, txd |-> txd_buf, hist |-> signal_history,
     dev |-> [dev EXCEPT !.frames = << >>, !.resets = 0], log |-> << >>]

\* the state a call leaves behind
\* the bytes flushed by the events lg, in order
RECURSIVE Stream(_)
Stream(lg) ==
    IF Len(lg) = 0 THEN << >> ELSE lg[1].data \o Stream(Tail(lg))

\* the monitor after the events lg; on a real link with the register device
\* attached it has seen the bytes the device has seen
MonitorAfter(P) ==
    IF ~debug_mode /\ P.dev.kind = "mcp" THEN P.dev
    ELSE LinkWrite([monitor EXCEPT !.frames = << >>, !.resets = 0], Stream(P.log))

Leave(P) ==
    /\ pin_list' = P.pins
    /\ txd_buf' = P.txd
    /\ signal_history' = P.hist
    /\ dev' = P.dev
    /\ log' = P.log
    /\ monitor' = MonitorAfter(P)

Call(name, a1, a2, a3) == [name |-> name, a1 |-> a1, a2 |-> a2, a3 |-> a3]

------------------------------------------------------------------------------
(* SPI: s = [ck, txd, rxd] holds the pin numbers of the three pin objects   *)

\* lines 284-292: the checks of SPI.__init__
SpiRejected(pins, pin_ck, pin_txd, pin_rxd) ==
    LET ck == PinIndex(pins, pin_ck)
        txd == PinIndex(pins, pin_txd)
        rxd == PinIndex(pins, pin_rxd)
    IN  \/ ck = 0 \/ txd = 0 \/ rxd = 0
        \/ Cardinality({pin_ck, pin_txd, pin_rxd}) # 3
        \/ ~pins[ck].is_output \/ ~pins[txd].is_output \/ pins[rxd].is_output

\* lines 294-296: make sure CLK is low
SpiStart(P, s) == SetPins(SetValue(P, PinIndex(pin_list, s.ck), 0), TRUE)

\* mutant: a clock found high is left as it is
ClockIdle_Skip(P, s) == P

\* lines 306-310 and 333-337: the clock is forced low when it is not
ClockIdle(P, s) ==
    CHOOSE R \in
        {IF S.pins[PinIndex(S.pins, s.ck)].value # 0
         THEN SetPins(SetValue(S, PinIndex(S.pins, s.ck), 0), TRUE)
         ELSE S : S \in {P}} : TRUE

\* mutant: the bits are sent least-significant first
RECURSIVE SendBits_LsbFirst(_, _, _, _)
SendBits_LsbFirst(P, s, value, i) ==
    IF i < 0 THEN P
    ELSE LET ck == PinIndex(pin_list, s.ck)
             txd == PinIndex(pin_list, s.txd)
             P1 == SetPins(SetValue(SetValue(P, ck, 0), txd, Bit(value, 7 - i)),
                           FALSE)
             P2 == SetPins(SetValue(P1, ck, 1), FALSE)
         IN  CHOOSE T \in {SendBits_LsbFirst(X, s, value, i - 1) : X \in {P2}} : TRUE

\* mutant: the data bit is driven together with the rising clock
RECURSIVE SendBits_DataOnHigh(_, _, _, _)
SendBits_DataOnHigh(P, s, value, i) ==
    IF i < 0 THEN P
    ELSE LET ck == PinIndex(pin_list, s.ck)
             txd == PinIndex(pin_list, s.txd)
             P1 == SetPins(SetValue(P, ck, 0), FALSE)
             P2 == SetPins(SetValue(SetValue(P1, ck, 1), txd, Bit(value, i)), FALSE)
         IN  CHOOSE T \in {SendBits_DataOnHigh(X, s, value, i - 1) : X \in {P2}} :
                 TRUE

\* lines 313-321: bits i down to 0, each a clock-low state with the data bit
\* and a clock-high state, both buffered
RECURSIVE SendBits(_, _, _, _)
SendBits(P, s, value, i) ==
    IF i < 0 THEN P
    ELSE LET ck == PinIndex(pin_list, s.ck)
             txd == PinIndex(pin_list, s.txd)
             P1 == SetPins(SetValue(SetValue(P, ck, 0), txd, Bit(value, i)), FALSE)
             P2 == SetPins(SetValue(P1, ck, 1), FALSE)
         IN  CHOOSE T \in {SendBits(X, s, value, i - 1) : X \in {P2}} : TRUE

\* SPI.send_byte
SendByte(P, s, value) ==
    SetPins(SetValue(SendBits(ClockIdle(P, s), s, value, 7),
                     PinIndex(pin_list, s.ck), 0), TRUE)

\* mutant: the data-in level is sampled after the clock pulse of the bit
ReceiveBit_AfterPulse(R, s) ==
    LET ck == PinIndex(pin_list, s.ck)
        rxd == PinIndex(pin_list, s.rxd)
    IN  CHOOSE T \in UNION
            {{[P |-> P1, val |-> 2 * R0.val + P1.pins[rxd].value] :
                 P1 \in {GetPins(SetPins(SetValue(SetPins(SetValue(R0.P, ck, 1),
                                                          FALSE), ck, 0),
                                         TRUE))}} : R0 \in {R}} : TRUE

\* mutant: the clock-high state is sent on its own
ReceiveBit_FlushHigh(R, s) ==
    LET ck == PinIndex(pin_list, s.ck)
        rxd == PinIndex(pin_list, s.rxd)
    IN  CHOOSE T \in UNION
            {{[P |-> SetPins(SetValue(SetPins(SetValue(P1, ck, 1), TRUE), ck, 0),
                             TRUE),
               val |-> 2 * R0.val + P1.pins[rxd].value] :
                 P1 \in {GetPins(R0.P)}} : R0 \in {R}} : TRUE

\* lines 345-355: one bit; R = [P, val]
ReceiveBit(R, s) ==
    LET ck == PinIndex(pin_list, s.ck)
        rxd == PinIndex(pin_list, s.rxd)
    IN  CHOOSE T \in UNION
            {{[P |-> SetPins(SetValue(SetPins(SetValue(P1, ck, 1), FALSE), ck, 0),
                             TRUE),
               val |-> 2 * R0.val + P1.pins[rxd].value] :
                 P1 \in {GetPins(R0.P)}} : R0 \in {R}} : TRUE

\* lines 343-355: bits i down to 0
RECURSIVE ReceiveBits(_, _, _)
ReceiveBits(R, s, i) ==
    IF i < 0 THEN R
    ELSE CHOOSE T \in {ReceiveBits(X, s, i - 1) : X \in {ReceiveBit(R, s)}} : TRUE

\* SPI.receive_byte: [P, val], val the byte returned
ReceiveByte(P, s) == ReceiveBits(Now([P |-> ClockIdle(P, s), val |-> 0]), s, 7)

------------------------------------------------------------------------------
(* MCP23S17: m = [cs, reset] holds the pin numbers of the two pin objects   *)

\* mutant: the directions of chip-select and reset are not checked
McpRejected_NoDirection(pins, pin_ck, pin_txd, pin_rxd, pin_cs, pin_reset) ==
    LET cs == PinIndex(pins, pin_cs)
        reset == PinIndex(pins, pin_reset)
    IN  \/ cs = 0 \/ reset = 0
        \/ Cardinality({pin_ck, pin_txd, pin_rxd, pin_cs, pin_reset}) # 5

\* lines 42-49: the checks of MCP23S17.__init__ before the SPI is built
McpRejected(pins, pin_ck, pin_txd, pin_rxd, pin_cs, pin_reset) ==
    LET cs == PinIndex(pins, pin_cs)
        reset == PinIndex(pins, pin_reset)
    IN  \/ cs = 0 \/ reset = 0
        \/ Cardinality({pin_ck, pin_txd, pin_rxd, pin_cs, pin_reset}) # 5
        \/ ~pins[cs].is_output \/ ~pins[reset].is_output

\* MCP23S17.reset_devices
ResetDevices(P, m) ==
    LET cs == PinIndex(pin_list, m.cs)
        reset == PinIndex(pin_list, m.reset)
        P1 == SetPins(SetValue(SetValue(P, cs, 1), reset, 0), TRUE)
    IN  SetPins(SetValue(P1, reset, 1), TRUE)

\* mutant: the device address is not shifted past the read/write bit
Opcode_NoShift(base, device) == BitOr(base, device % 8)

\* lines 87-88 and 118-119: val = 0x40 or 0x41; val |= ((dev & 0x7) << 1)
Opcode(base, device) == BitOr(base, (device % 8) * 2)

\* mutant: the register address is sent unmasked
WriteRegister_NoMask(P, s, m, device, reg, data) ==
    LET cs == PinIndex(pin_list, m.cs)
        P1 == SetPins(SetValue(P, cs, 0), TRUE)
        P2 == SendByte(P1, s, Opcode(64, device))
        P3 == SendByte(P2, s, reg)
        P4 == SendByte(P3, s, data % 256)
    IN  SetPins(SetValue(P4, cs, 1), TRUE)

\* MCP23S17.write_register
WriteRegister(P, s, m, device, reg, data) ==
    LET cs == PinIndex(pin_list, m.cs)
        P1 == SetPins(SetValue(P, cs, 0), TRUE)
        P2 == SendByte(P1, s, Opcode(64, device))
        P3 == SendByte(P2, s, reg % 32)
        P4 == SendByte(P3, s, data % 256)
    IN  SetPins(SetValue(P4, cs, 1), TRUE)

\* mutant: the opcode is sent with the read bit clear
ReadRegister_WriteOpcode(P, s, m, device, reg) ==
    LET cs == PinIndex(pin_list, m.cs)
        P1 == SetPins(SetValue(P, cs, 0), TRUE)
        P2 == SendByte(P1, s, Opcode(64, device))
        P3 == SendByte(P2, s, reg % 32)
    IN  CHOOSE T \in {[P |-> SetPins(SetValue(R.P, cs, 1), TRUE), val |-> R.val] :
                         R \in {ReceiveByte(P3, s)}} : TRUE

\* MCP23S17.read_register: [P, val], val the byte returned
ReadRegister(P, s, m, device, reg) ==
    LET cs == PinIndex(pin_list, m.cs)
        P1 == SetPins(SetValue(P, cs, 0), TRUE)
        P2 == SendByte(P1, s, Opcode(65, device))
        P3 == SendByte(P2, s, reg % 32)
    IN  CHOOSE T \in {[P |-> SetPins(SetValue(R.P, cs, 1), TRUE), val |-> R.val] :
                         R \in {ReceiveByte(P3, s)}} : TRUE

\* line 59: IOCON BANK=1, SEQ=0, HAEN=1
IOCON == 10
IOCON_INIT == 136

\* mutant: the address-enable write is left out
McpStart_NoEnable(P, s, m) == ResetDevices(P, m)

\* mutant: the address-enable write sets no other bit
McpStart_HaenOnly(P, s, m) ==
    WriteRegister(ResetDevices(P, m), s, m, 0, IOCON, 8)

\* lines 52-59: reset the devices, then enable the hardware addresses
McpStart(P, s, m) ==
    WriteRegister(ResetDevices(P, m), s, m, 0, IOCON, IOCON_INIT)

------------------------------------------------------------------------------
(* Port.__init__ *)

\* mutant: the retry count is compared after one more retry
RECURSIVE OpenLoop_OneMore(_, _, _)
OpenLoop_OneMore(retry_count, fails, attempts) ==
    IF fails = 0 THEN <<TRUE, attempts + 1>>
    ELSE IF retry_count > MAX_OPEN_RETRY THEN <<FALSE, attempts + 1>>
    ELSE OpenLoop_OneMore(retry_count + 1, fails - 1, attempts + 1)

\* lines 104-115: the open loop; fails is the number of attempts that raise
\* DeviceError before one succeeds.  Returns <<opened, attempts made>>.
RECURSIVE OpenLoop(_, _, _)
OpenLoop(retry_count, fails, attempts) ==
    IF fails = 0 THEN <<TRUE, attempts + 1>>
    ELSE IF retry_count >= MAX_OPEN_RETRY THEN <<FALSE, attempts + 1>>
    ELSE OpenLoop(retry_count + 1, fails - 1, attempts + 1)

\* lines 118-129: calls made on the opened handle, in order
LinkSetup(mask) ==
    << <<"resetDevice", 0, 0>>, <<"setBaudRate", 57600, 0>>,
       <<"setBitMode", 0, 0>>, <<"setBitMode", mask, 1>> >>

PortInit ==
    /\ port = "new"
    /\ op' = Call("Port", 0, 0, 0)
    /\ ret' = -1
    /\ UNCHANGED <<debug_mode, debug_read_data, spi, mcp, open_fail, nops,
                   nsets, client_resets, given, run>>
    /\ IF PinListRejected(pin_list)
       THEN /\ port' = "ValueError"
            /\ UNCHANGED <<pin_list, ftd, txd_buf, signal_history, output_pins,
                           input_pins, dev, open_attempts, link_calls, log,
                           monitor>>
       ELSE LET omask == OutputPinMask(pin_list, Len(pin_list))
                imask == InputPinMask(pin_list)
                opened == IF debug_mode THEN <<TRUE, 0>>
                          ELSE OpenLoop(0, open_fail, 0)
            IN  /\ output_pins' = omask
                /\ input_pins' = imask
                /\ open_attempts' = opened[2]
                /\ IF ~opened[1]
                   THEN /\ port' = "OSError"
                        /\ UNCHANGED <<pin_list, ftd, txd_buf, signal_history,
                                       dev, link_calls, log, monitor>>
                   ELSE /\ port' = "ok"
                        /\ ftd' = IF debug_mode THEN "none" ELSE "open"
                        /\ link_calls' = IF debug_mode THEN << >>
                                         ELSE LinkSetup(omask)
                        /\ Leave(SetPins([Enter EXCEPT
                                 !.pins = NormalizeValues(pin_list)], TRUE))

------------------------------------------------------------------------------
(* Calls on a constructed Port *)

DebugReads == {0, 2, 4, 253}

\* client code assigns pin.value of one of the pin objects
ClientSetPin ==
    /\ port = "ok"
    /\ nsets < MaxPinSets
    /\ \E i \in 1..Len(pin_list), v \in {0, 1} :
          pin_list' = [pin_list EXCEPT ![i].value = v]
    /\ nsets' = nsets + 1
    /\ UNCHANGED <<debug_mode, ftd, txd_buf, signal_history, debug_read_data,
                   output_pins, input_pins, port, spi, mcp, dev, open_fail,
                   open_attempts, link_calls, log, op, ret, nops, client_resets,
                   given, monitor, run>>

\* the test injects the snapshot of the simulation mode
SetDebugReadData ==
    /\ port = "ok"
    /\ debug_mode
    /\ \E v \in DebugReads : debug_read_data' = v
    /\ UNCHANGED <<pin_list, debug_mode, ftd, txd_buf, signal_history,
                   output_pins, input_pins, port, spi, mcp, dev, open_fail,
                   open_attempts, link_calls, log, op, ret, nops, nsets,
                   client_resets, given, monitor, run>>

Unchanged_Call ==
    UNCHANGED <<debug_mode, ftd, debug_read_data, output_pins, input_pins,
                port, open_fail, open_attempts, link_calls, nsets, given, run>>

SetPinsUpTo(limit) ==
    /\ port = "ok"
    /\ nops < limit
    /\ \E flush \in BOOLEAN :
          /\ Leave(SetPins(Enter, flush))
          /\ op' = Call("set_pins", IF flush THEN 1 ELSE 0, 0, 0)
    /\ ret' = -1
    /\ nops' = nops + 1
    /\ Unchanged_Call
    /\ UNCHANGED <<spi, mcp, client_resets>>

DoSetPins == SetPinsUpTo(MaxOps)

FillSetPins == SetPinsUpTo(MaxFill)

DoGetPins ==
    /\ port = "ok"
    /\ nops < MaxOps
    /\ Leave(GetPins(Enter))
    /\ op' = Call("get_pins", 0, 0, 0)
    /\ ret' = -1
    /\ nops' = nops + 1
    /\ Unchanged_Call
    /\ UNCHANGED <<spi, mcp, client_resets>>

------------------------------------------------------------------------------
(* SPI and MCP23S17 calls *)

SPIInitWith(pin_ck, pin_txd, pin_rxd) ==
    /\ port = "ok"
    /\ spi.state = "none"
    /\ op' = Call("SPI", pin_ck, pin_txd, pin_rxd)
    /\ ret' = -1
    /\ Unchanged_Call
    /\ UNCHANGED <<mcp, client_resets, nops>>
    /\ IF SpiRejected(pin_list, pin_ck, pin_txd, pin_rxd)
       THEN /\ spi' = [state |-> "ValueError", ck |-> pin_ck, txd |-> pin_txd,
                       rxd |-> pin_rxd]
            /\ log' = << >>
            /\ UNCHANGED <<pin_list, txd_buf, signal_history, dev, monitor>>
       ELSE LET s == [state |-> "ok", ck |-> pin_ck, txd |-> pin_txd,
                      rxd |-> pin_rxd]
            IN  /\ spi' = s
                /\ Leave(SpiStart(Enter, s))

\* the application's wiring
SPIInit == SPIInitWith(PIN_CK, PIN_TXD, PIN_RXD)

SendByteUpTo(value, limit) ==
    /\ spi.state = "ok"
    /\ nops < limit
    /\ Leave(SendByte(Enter, spi, value))
    /\ op' = Call("send_byte", value, 0, 0)
    /\ ret' = -1
    /\ nops' = nops + 1
    /\ Unchanged_Call
    /\ UNCHANGED <<spi, mcp, client_resets>>

SendByteOf(value) == SendByteUpTo(value, MaxSpiOps)

GivenSendByte == SendByteOf(given.v)

ReceiveByteUpTo(limit) ==
    /\ spi.state = "ok"
    /\ nops < limit
    /\ \E R \in {ReceiveByte(Enter, spi)} :
          /\ Leave(R.P)
          /\ ret' = R.val
    /\ op' = Call("receive_byte", 0, 0, 0)
    /\ nops' = nops + 1
    /\ Unchanged_Call
    /\ UNCHANGED <<spi, mcp, client_resets>>

DoReceiveByte == ReceiveByteUpTo(MaxSpiOps)

\* lines 366-371 of __main__: the client assigns the bits of v to the output
\* pins, in list order, and calls set_pins
ClientValues(pins, v) ==
    [i \in 1..Len(pins) |->
        IF pins[i].is_output THEN [pins[i] EXCEPT !.value = Bit(v, i - 1)]
        ELSE pins[i]]

ClientSetPinsUpTo(limit) ==
    /\ port = "ok"
    /\ nops < limit
    /\ \E flush \in BOOLEAN :
          /\ Leave(SetPins([Enter EXCEPT !.pins = ClientValues(@, nops + 1)],
                           flush))
          /\ op' = Call("set_pins", IF flush THEN 1 ELSE 0, nops + 1, 0)
    /\ ret' = -1
    /\ nops' = nops + 1
    /\ Unchanged_Call
    /\ UNCHANGED <<spi, mcp, client_resets>>

HistSetPins == ClientSetPinsUpTo(MaxHist)

\* the same client on a link that reports short writes
ShortSetPins == ClientSetPinsUpTo(MaxShortOps)

HistGetPins ==
    /\ port = "ok"
    /\ op.name # "get_pins"
    /\ Leave(GetPins(Enter))
    /\ op' = Call("get_pins", 0, 0, 0)
    /\ ret' = -1
    /\ Unchanged_Call
    /\ UNCHANGED <<spi, mcp, client_resets, nops>>

\* client code leaves the clock pin high between two transfers
ClientSetClock ==
    /\ spi.state = "ok"
    /\ pin_list[PinIndex(pin_list, spi.ck)].value = 0
    /\ pin_list' = [pin_list EXCEPT ![PinIndex(pin_list, spi.ck)].value = 1]
    /\ op' = Call("pin.value", spi.ck, 1, 0)
    /\ ret' = -1
    /\ log' = << >>
    /\ UNCHANGED <<debug_mode, ftd, txd_buf, signal_history, debug_read_data,
                   output_pins, input_pins, port, spi, mcp, dev, open_fail,
                   open_attempts, link_calls, nops, nsets, client_resets,
                   given, monitor, run>>

\* transfers and pin pushes of a client that uses the SPI and the Port
WireSendByte == SendByteUpTo(given.v, MaxWireOps)

WireReceiveByte == ReceiveByteUpTo(MaxWireOps)

WireSetPins == spi.state = "ok" /\ SetPinsUpTo(MaxWireOps)

\* mutant: the devices are reset before the wiring is checked
MCPInitWith_ResetFirst(pin_ck, pin_txd, pin_rxd, pin_cs, pin_reset) ==
    /\ port = "ok"
    /\ spi.state = "none"
    /\ mcp.state = "none"
    /\ op' = Call("MCP23S17", pin_cs, pin_reset, 0)
    /\ ret' = -1
    /\ Unchanged_Call
    /\ UNCHANGED <<client_resets, nops>>
    /\ IF PinIndex(pin_list, pin_cs) = 0 \/ PinIndex(pin_list, pin_reset) = 0
       THEN /\ mcp' = [state |-> "ValueError", cs |-> pin_cs, reset |-> pin_reset]
            /\ spi' = [state |-> "none", ck |-> pin_ck, txd |-> pin_txd,
                       rxd |-> pin_rxd]
            /\ log' = << >>
            /\ UNCHANGED <<pin_list, txd_buf, signal_history, dev, monitor>>
       ELSE \E m \in {[state |-> "ok", cs |-> pin_cs, reset |-> pin_reset]},
               s \in {[state |-> "ok", ck |-> pin_ck, txd |-> pin_txd,
                       rxd |-> pin_rxd]} :
              IF \/ McpRejected(pin_list, pin_ck, pin_txd, pin_rxd, pin_cs,
                                pin_reset)
                 \/ SpiRejected(pin_list, pin_ck, pin_txd, pin_rxd)
              THEN /\ mcp' = [m EXCEPT !.state = "ValueError"]
                   /\ spi' = [s EXCEPT !.state = "ValueError"]
                   /\ Leave(ResetDevices(Enter, m))
              ELSE /\ spi' = s
                   /\ mcp' = m
                   /\ Leave(McpStart(SpiStart(Enter, s), s, m))

MCPInitWith(pin_ck, pin_txd, pin_rxd, pin_cs, pin_reset) ==
    /\ port = "ok"
    /\ spi.state = "none"
    /\ mcp.state = "none"
    /\ op' = Call("MCP23S17", pin_cs, pin_reset, 0)
    /\ ret' = -1
    /\ Unchanged_Call
    /\ UNCHANGED <<client_resets, nops>>
    /\ IF McpRejected(pin_list, pin_ck, pin_txd, pin_rxd, pin_cs, pin_reset)
       THEN \* raised before the SPI is built; the arguments are kept
            /\ mcp' = [state |-> "ValueError", cs |-> pin_cs, reset |-> pin_reset]
            /\ spi' = [state |-> "none", ck |-> pin_ck, txd |-> pin_txd,
                       rxd |-> pin_rxd]
            /\ log' = << >>
            /\ UNCHANGED <<pin_list, txd_buf, signal_history, dev, monitor>>
       ELSE IF SpiRejected(pin_list, pin_ck, pin_txd, pin_rxd)
       THEN /\ mcp' = [state |-> "ValueError", cs |-> pin_cs, reset |-> pin_reset]
            /\ spi' = [state |-> "ValueError", ck |-> pin_ck, txd |-> pin_txd,
                       rxd |-> pin_rxd]
            /\ log' = << >>
            /\ UNCHANGED <<pin_list, txd_buf, signal_history, dev, monitor>>
       ELSE LET s == [state |-> "ok", ck |-> pin_ck, txd |-> pin_txd,
                      rxd |-> pin_rxd]
                m == [state |-> "ok", cs |-> pin_cs, reset |-> pin_reset]
            IN  /\ spi' = s
                /\ mcp' = m
                /\ Leave(McpStart(SpiStart(Enter, s), s, m))

\* the application's wiring
MCPInit == MCPInitWith(PIN_CK, PIN_TXD, PIN_RXD, PIN_CS, PIN_RESET)

DoResetDevices ==
    /\ mcp.state = "ok"
    /\ nops < MaxRegOps
    /\ Leave(ResetDevices(Enter, mcp))
    /\ op' = Call("reset_devices", 0, 0, 0)
    /\ ret' = -1
    /\ nops' = nops + 1
    /\ client_resets' = 1
    /\ Unchanged_Call
    /\ UNCHANGED <<spi, mcp>>

WriteRegisterOf(device, reg, data) ==
    /\ mcp.state = "ok"
    /\ nops < MaxRegOps
    /\ Leave(WriteRegister(Enter, spi, mcp, device, reg, data))
    /\ op' = Call("write_register", device, reg, data)
    /\ ret' = -1
    /\ nops' = nops + 1
    /\ Unchanged_Call
    /\ UNCHANGED <<spi, mcp, client_resets>>

ReadRegisterOf(device, reg) ==
    /\ mcp.state = "ok"
    /\ nops < MaxRegOps
    /\ \E R \in {ReadRegister(Enter, spi, mcp, device, reg)} :
          /\ Leave(R.P)
          /\ ret' = R.val
    /\ op' = Call("read_register", device, reg, 0)
    /\ nops' = nops + 1
    /\ Unchanged_Call
    /\ UNCHANGED <<spi, mcp, client_resets>>

\* argument values of the register calls: in range, and out of range to be masked
DevArgs == {0, 5, 13}
RegArgs == {10, 57}
DataArgs == {136, 421}

DoWriteRegister ==
    \E device \in DevArgs, reg \in RegArgs, data \in DataArgs :
        WriteRegisterOf(device, reg, data)

DoReadRegister ==
    \E device \in DevArgs, reg \in RegArgs : ReadRegisterOf(device, reg)

GivenWriteRegister == WriteRegisterOf(given.d, given.r, given.v)

GivenReadRegister == ReadRegisterOf(given.d, given.r)

\* pin numbers a caller may pass to the constructors of the upper layers
WirePins == {0, 1, 2, 3, 5}

\* an SPI built by the caller itself, on a Port with no register protocol
SPIInitAny ==
    /\ mcp.state = "none"
    /\ \E pin_ck_no, pin_txd_no, pin_rxd_no \in WirePins :
          SPIInitWith(pin_ck_no, pin_txd_no, pin_rxd_no)

MCPInitAny ==
    \E pin_ck_no, pin_txd_no, pin_rxd_no, pin_cs_no, pin_reset_no \in WirePins :
        MCPInitWith(pin_ck_no, pin_txd_no, pin_rxd_no, pin_cs_no, pin_reset_no)

\* Port.__del__: runs when the Port object is collected, which the runtime
\* may do once no reference to it is left
PortDel ==
    /\ port = "ok"
    /\ port' = "deleted"
    /\ ftd' = IF ftd # "none" THEN "closed" ELSE ftd
    /\ op' = Call("__del__", 0, 0, 0)
    /\ ret' = -1
    /\ UNCHANGED <<pin_list, debug_mode, txd_buf, signal_history,
                   debug_read_data, output_pins, input_pins, spi, mcp, dev,
                   open_fail, open_attempts, link_calls, log, nops, nsets,
                   client_resets, given, monitor, run>>

------------------------------------------------------------------------------
(* MainControl._run_cb: the convergence sampler *)

\* line 76: for _ in range(40)
IterationCap == 40
\* line 88: if len(l_outvalues) < 5: continue
MinSamples == 5
\* the registers of the two ports (BANK=1) and the devices of the application
GPIOA == 9
GPIOB == 25
OUT_DEVICE == 0
IN_DEVICE == 1

\* ~x and x & 0xff for Python integers of either sign
Invert(x) == -x - 1
Low8(x) == x % 256

\* mutant: the carry bit read from the second register is left out
Combine_LowOnly(vl, vh) == Low8(vl)

\* line 81: v = ((vh & 1) << 8) | (vl & 0xff)
Combine(vl, vh) == (vh % 2) * 256 + Low8(vl)

\* mutant: two equal consecutive samples end the polling
Converged_Pair(l) == l[Len(l)] = l[Len(l) - 1]

\* line 92: l_outvalues[-1] == l_outvalues[-3] == l_outvalues[-5]
Converged(l) == l[Len(l)] = l[Len(l) - 2] /\ l[Len(l) - 2] = l[Len(l) - 4]

\* mutant: the first sample is reported
FinalSample_First(l) == l[1]

\* line 100: raw_y = y = l_outvalues[-1]
FinalSample(l) == l[Len(l)]

\* mutant: the negative result is not converted back
Decode_NoNegate(raw_y, a, b, is_plus) ==
    IF is_plus THEN raw_y ELSE Low8(raw_y)

\* lines 100-106: the value shown for the raw value raw_y
Decode(raw_y, a, b, is_plus) ==
    IF is_plus THEN raw_y
    ELSE IF a - b < 0 THEN -Low8(Invert(raw_y) + 1)
    ELSE Low8(raw_y)

\* The circuit under test: what the two input registers of the input device
\* hold at the k-th sample, GPIOB in the bits above the low eight.  A signal
\* is a prefix followed by a repeated tail.
SignalAt(sig, k) ==
    IF k <= Len(sig.pre) THEN sig.pre[k]
    ELSE sig.tail[((k - Len(sig.pre) - 1) % Len(sig.tail)) + 1]

NoSignal == [pre |-> << >>, tail |-> <<0>>]

\* the input device's port registers show the circuit's output
Sense(d, v) ==
    [d EXCEPT !.mem = MemWrite(MemWrite(@, IN_DEVICE, GPIOA, v % 256),
                               IN_DEVICE, GPIOB, v \div 256)]

\* no run has been started
NoRun ==
    [pc |-> "idle", a |-> 0, b |-> 0, is_plus |-> TRUE, l_outvalues |-> << >>,
     raw_y |-> 0, y |-> 0, stopped |-> FALSE, signal |-> NoSignal, slow |-> 0]

\* lines 78-81: the two register reads of one sample; [P, v]
SampleOnce(P, s, m) ==
    CHOOSE T \in UNION
        {{[P |-> X2.P, v |-> Combine(X1.val, X2.val)] :
             X2 \in {ReadRegister(X1.P, s, m, IN_DEVICE, GPIOB)}} :
                X1 \in {ReadRegister(P, s, m, IN_DEVICE, GPIOA)}} : TRUE

\* mutant: the second operand is written before the first
RunStart_Swapped(a, b, is_plus, sig, slow) ==
    /\ mcp.state = "ok"
    /\ run.pc = "idle"
    /\ LET b_feed == IF is_plus THEN b ELSE 0 - b
       IN  Leave(CHOOSE T \in
                   {WriteRegister(P1, spi, mcp, OUT_DEVICE, GPIOA, Low8(a)) :
                       P1 \in {WriteRegister(Enter, spi, mcp, OUT_DEVICE, GPIOB,
                                             Low8(b_feed))}} : TRUE)
    /\ run' = [NoRun EXCEPT !.pc = "polling", !.a = a, !.b = b,
                            !.is_plus = is_plus, !.signal = sig, !.slow = slow]
    /\ op' = Call("_run_cb", a, b, IF is_plus THEN 1 ELSE 0)
    /\ ret' = -1
    /\ UNCHANGED <<debug_mode, ftd, debug_read_data, output_pins, input_pins,
                   port, spi, mcp, open_fail, open_attempts, link_calls, nops,
                   nsets, client_resets, given>>

\* lines 62-75: the operands are written to the two ports of the output
\* device.  sig and slow are the circuit's behaviour during the run and the
\* number of samples taken before 0.02 s have passed.
RunStart(a, b, is_plus, sig, slow) ==
    /\ mcp.state = "ok"
    /\ run.pc = "idle"
    /\ LET b_feed == IF is_plus THEN b ELSE 0 - b
       IN  Leave(CHOOSE T \in
                   {WriteRegister(P1, spi, mcp, OUT_DEVICE, GPIOB, Low8(b_feed)) :
                       P1 \in {WriteRegister(Enter, spi, mcp, OUT_DEVICE, GPIOA,
                                             Low8(a))}} : TRUE)
    /\ run' = [NoRun EXCEPT !.pc = "polling", !.a = a, !.b = b,
                            !.is_plus = is_plus, !.signal = sig, !.slow = slow]
    /\ op' = Call("_run_cb", a, b, IF is_plus THEN 1 ELSE 0)
    /\ ret' = -1
    /\ UNCHANGED <<debug_mode, ftd, debug_read_data, output_pins, input_pins,
                   port, spi, mcp, open_fail, open_attempts, link_calls, nops,
                   nsets, client_resets, given>>

\* lines 76-93: one iteration of the polling loop
RunSample ==
    /\ run.pc = "polling"
    /\ \E k \in {Len(run.l_outvalues) + 1} :
       \E S \in {SampleOnce([Enter EXCEPT
                                !.dev = Sense(@, SignalAt(run.signal, k))],
                            spi, mcp)} :
       \E l \in {Append(run.l_outvalues, S.v)} :
          LET short == k <= run.slow
              stop == ~short /\ Len(l) >= MinSamples /\ Converged(l)
          IN  /\ Leave(S.P)
              /\ run' = [run EXCEPT !.l_outvalues = l, !.stopped = stop,
                                    !.pc = IF stop \/ k >= IterationCap
                                           THEN "collected" ELSE "polling"]
              /\ ret' = S.v
    /\ op' = Call("sample", Len(run.l_outvalues) + 1, 0, 0)
    /\ UNCHANGED <<debug_mode, ftd, debug_read_data, output_pins, input_pins,
                   port, spi, mcp, open_fail, open_attempts, link_calls, nops,
                   nsets, client_resets, given>>

\* lines 95-108: the last sample is decoded and reported
RunFinish ==
    /\ run.pc = "collected"
    /\ LET raw_y == FinalSample(run.l_outvalues)
       IN  run' = [run EXCEPT !.pc = "done", !.raw_y = raw_y,
                              !.y = Decode(raw_y, run.a, run.b, run.is_plus)]
    /\ op' = Call("set_output_value", 0, 0, 0)
    /\ ret' = -1
    /\ UNCHANGED <<pin_list, debug_mode, ftd, txd_buf, signal_history,
                   debug_read_data, output_pins, input_pins, port, spi, mcp,
                   dev, open_fail, open_attempts, link_calls, log, nops, nsets,
                   client_resets, given, monitor>>

\* the runs started: operands, circuit behaviour and timing
MaxPre == 2           \* longest enumerated prefix of a signal
SampleVals == {1, 2, 773}
Tails == {<<5>>, <<1, 2, 3>>}
ExampleSignal == [pre |-> <<1, 2, 2, 3, 2>>, tail |-> <<5>>]
Signals ==
    {[pre |-> pre, tail |-> tail] :
        pre \in UNION {[1..n -> SampleVals] : n \in 0..MaxPre}, tail \in Tails}
    \cup {ExampleSignal}
Slows == {0, 6, IterationCap}
Operands == {<<5, 3, TRUE>>, <<3, 5, FALSE>>}

DoRun ==
    \E o \in Operands, sig \in Signals, slow \in Slows :
        RunStart(o[1], o[2], o[3], sig, slow)

------------------------------------------------------------------------------
(* Specifications *)

\* pin objects of the application and of the unit tests
pin_ck == IOPin(0, TRUE, 0)
pin_td == IOPin(1, TRUE, 0)
pin_rd == IOPin(2, FALSE, 0)
pin_lcs == IOPin(3, TRUE, 1)
pin_lres == IOPin(5, TRUE, 1)
AppPins == <<pin_lres, pin_lcs, pin_ck, pin_td, pin_rd>>

PinNos == {-1, 0, 1, 2, 7, 8}
Entries ==
    {NonPin} \cup {IOPin(n, o, v) : n \in PinNos, o \in BOOLEAN, v \in {0, 1}}
ExamplePins ==
    <<IOPin(0, TRUE, 0), IOPin(1, TRUE, 0), IOPin(2, FALSE, 0), IOPin(3, TRUE, 1)>>
PinLists ==
    UNION {[1..n -> Entries] : n \in 0..MaxPins} \cup {ExamplePins, AppPins}

InitLayers ==
    /\ ftd = "none"
    /\ txd_buf = << >>
    /\ signal_history = << >>
    /\ debug_read_data = 0
    /\ output_pins = 0
    /\ input_pins = 0
    /\ port = "new"
    /\ spi = [state |-> "none", ck |-> 0, txd |-> 0, rxd |-> 0]
    /\ mcp = [state |-> "none", cs |-> 0, reset |-> 0]
    /\ open_attempts = 0
    /\ link_calls = << >>
    /\ log = << >>
    /\ op = Call("none", 0, 0, 0)
    /\ ret = -1
    /\ nops = 0
    /\ nsets = 0
    /\ client_resets = 0
    /\ monitor = DevInit("mcp")

InitCommon ==
    /\ InitLayers
    /\ run = NoRun

NoArgs == [d |-> 0, r |-> 0, v |-> 0]

\* Port construction over the enumerated pin lists
InitPort ==
    /\ InitCommon
    /\ pin_list \in PinLists
    /\ debug_mode \in BOOLEAN
    /\ open_fail \in {0, MAX_OPEN_RETRY + 1}
    /\ dev = DevInit("loop")
    /\ given = NoArgs

NextPort == PortInit

SpecPort == InitPort /\ [][NextPort]_vars

\* the pin plane with the application's pins
InitPlane ==
    /\ InitCommon
    /\ pin_list = AppPins
    /\ debug_mode \in BOOLEAN
    /\ open_fail = 0
    /\ dev = DevInit("loop")
    /\ given = NoArgs

NextPlane ==
    \/ PortInit
    \/ ClientSetPin
    \/ SetDebugReadData
    \/ DoSetPins
    \/ DoGetPins

SpecPlane == InitPlane /\ [][NextPlane]_vars

\* filling the transmit buffer up to the packet limit
NextFill ==
    \/ PortInit
    \/ ClientSetPin
    \/ FillSetPins

SpecFill == InitPlane /\ [][NextFill]_vars

\* the application's pins with the directions dirs, in the application's order
Plane(dirs) ==
    <<IOPin(5, dirs[5], 1), IOPin(3, dirs[3], 1), IOPin(0, dirs[0], 0),
      IOPin(1, dirs[1], 0), IOPin(2, dirs[2], 0)>>

AppDirs == [n \in WirePins |-> n # 2]

\* pl without the pin numbered n
Without(pl, n) == SelectSeq(pl, LAMBDA q : q.no # n)

\* planes the upper layers are built on: the application's, those with one
\* direction changed, those with exactly one input, those with one pin missing
WiringPlanes ==
    {Plane([AppDirs EXCEPT ![n] = ~@]) : n \in WirePins}
    \cup {Plane([n \in WirePins |-> n # k]) : k \in WirePins}
    \cup {Without(AppPins, n) : n \in WirePins}

\* pin lists Port construction rejects: empty, a repeated pin number, a pin
\* number out of range
BadPlanes ==
    {<< >>, <<pin_lres, pin_lcs, pin_ck, pin_td, IOPin(0, FALSE, 0)>>,
     <<pin_lres, pin_lcs, pin_ck, pin_td, IOPin(8, FALSE, 0)>>}

InitWiring ==
    /\ InitCommon
    /\ pin_list \in WiringPlanes \cup BadPlanes
    /\ debug_mode \in BOOLEAN
    /\ open_fail = 0
    /\ dev = DevInit("mcp")
    /\ given = NoArgs

NextWiring ==
    \/ PortInit
    \/ SPIInitAny
    \/ MCPInitAny
    \/ PortDel

SpecWiring == InitWiring /\ [][NextWiring]_vars

\* opening the link: one-pin lists, the application's and the example's
OpenPinLists == {<<pin>> : pin \in Entries} \cup {ExamplePins, AppPins}

InitOpen ==
    /\ InitCommon
    /\ pin_list \in OpenPinLists
    /\ debug_mode \in BOOLEAN
    /\ open_fail \in 0..MaxOpenFail
    /\ dev = DevInit("loop")
    /\ given = NoArgs

NextOpen ==
    \/ PortInit
    \/ PortDel

SpecOpen == InitOpen /\ [][NextOpen]_vars

------------------------------------------------------------------------------
(* Properties of the pin plane *)

PinNoSet(pl) == {pl[i].no : i \in 1..Len(pl)}

\* the mask with exactly the bits of S set
MaskOf(S) ==
    LET f[b \in 0..8] == IF b = 8 THEN 0
                         ELSE (IF b \in S THEN 2^b ELSE 0) + f[b + 1]
    IN  f[0]

Constructed == port \in {"ok", "OSError"}

\* C1: for every accepted pin list the output mask and the input mask are
\* disjoint, their union is the active mask (the bits of the pin indices of
\* the list), and a pin's bit is in the output mask iff the pin is an output.
C1_MasksPartition ==
    Constructed =>
        /\ \A b \in 0..7 : ~(Bit(output_pins, b) = 1 /\ Bit(input_pins, b) = 1)
        /\ \A b \in 0..7 :
              (Bit(output_pins, b) = 1 \/ Bit(input_pins, b) = 1)
                  <=> b \in PinNoSet(pin_list)
        /\ output_pins + input_pins = MaskOf(PinNoSet(pin_list))
        /\ output_pins \in 0..255 /\ input_pins \in 0..255
        /\ \A i \in 1..Len(pin_list) :
              Bit(output_pins, pin_list[i].no) = 1 <=> pin_list[i].is_output

C1_Witness ==
    /\ port = "ok"
    /\ pin_list = AppPins
    /\ output_pins = 43
    /\ input_pins = 4

\* the defects of a pin list named by the specification
PinListDefect(pl) ==
    \/ Len(pl) = 0
    \/ \E i \in 1..Len(pl) : ~pl[i].isPin
    \/ \E i \in 1..Len(pl) : pl[i].isPin /\ pl[i].no \notin 0..7
    \/ \E i, j \in 1..Len(pl) :
          i # j /\ pl[i].isPin /\ pl[j].isPin /\ pl[i].no = pl[j].no

LinkOpens == debug_mode \/ open_fail <= MAX_OPEN_RETRY

\* C2 as stated: construction raises ValueError for every defective list and
\* succeeds for every list without a defect.
C2_Original ==
    port # "new" =>
        /\ PinListDefect(pin_list) => port = "ValueError"
        /\ ~PinListDefect(pin_list) => port = "ok"

\* C2: construction raises ValueError exactly for the defective lists; for a
\* list without a defect it succeeds whenever the link opens (always in
\* simulation mode) and otherwise fails with OSError, never with ValueError.
C2_ConfigErrorIffDefect ==
    port # "new" =>
        /\ (port = "ValueError") <=> PinListDefect(pin_list)
        /\ (~PinListDefect(pin_list) /\ LinkOpens) => port = "ok"
        /\ (~PinListDefect(pin_list) /\ ~LinkOpens) => port = "OSError"
        /\ port = "ValueError" => ftd = "none" /\ log = << >>

C2_Witness ==
    /\ port = "ValueError"
    /\ Len(pin_list) = 2
    /\ pin_list[1].isPin /\ pin_list[2].isPin
    /\ pin_list[1].no = pin_list[2].no
    /\ pin_list[1].no \in 0..7

\* the byte whose bit i is set iff pin i is an output whose value is 1
OutputByte(pl) ==
    MaskOf({pl[i].no : i \in {j \in 1..Len(pl) : pl[j].is_output /\ pl[j].value = 1}})

\* C7: a successful Port construction makes exactly one flush, of exactly one
\* byte, whose bit i is set iff pin i is an output with initial value 1; the
\* pins {0=out, 1=out, 2=in, 3=out(init 1)} give masks 11 and 4 and the byte 8.
C7_InitialPush ==
    (port = "ok" /\ op.name = "Port") =>
        /\ Len(log) = 1
        /\ log[1].t = "flush"
        /\ log[1].link = ~debug_mode
        /\ log[1].data = <<OutputByte(pin_list)>>
        /\ signal_history = log[1].data
        /\ txd_buf = << >>
        /\ pin_list = ExamplePins =>
              output_pins = 11 /\ input_pins = 4 /\ log[1].data = <<8>>

C7_Witness ==
    /\ port = "ok"
    /\ op.name = "Port"
    /\ pin_list = ExamplePins
    /\ Len(log) = 1
    /\ log[1].data = <<8>>

\* C3: a set_pins(flush=False) call that leaves fewer than TXD_PACKET_MAX bytes
\* buffered makes no link write; the call that brings the buffer to
\* TXD_PACKET_MAX bytes makes exactly one, which carries all the buffered
\* bytes in order and leaves the buffer empty.
C3_PacketLimit ==
    [][(op'.name = "set_pins" /\ op'.a1 = 0 /\ nops' = nops + 1) =>
          LET buf == Append(txd_buf, OutputByte(pin_list)) IN
          IF Len(buf) < TXD_PACKET_MAX
          THEN /\ log' = << >>
               /\ txd_buf' = buf
               /\ signal_history' = signal_history
          ELSE /\ Len(buf) = TXD_PACKET_MAX
               /\ Len(log') = 1
               /\ log'[1].t = "flush"
               /\ log'[1].link = ~debug_mode
               /\ log'[1].data = buf
               /\ txd_buf' = << >>]_vars

C3_Witness ==
    /\ op.name = "set_pins" /\ op.a1 = 0
    /\ ~debug_mode
    /\ Len(log) = 1
    /\ log[1].t = "flush"
    /\ Len(log[1].data) = TXD_PACKET_MAX
    /\ log[1].data[1] # log[1].data[TXD_PACKET_MAX]
    /\ txd_buf = << >>

\* C4: whenever get_pins obtains the input snapshot, in either mode, the
\* transmit buffer is empty: every byte buffered before the call has been sent.
C4_FlushBeforeRead ==
    /\ \A i \in 1..Len(log) : log[i].t = "read" => log[i].pending = 0
    /\ op.name = "get_pins" => txd_buf = << >>

------------------------------------------------------------------------------
(* Specifications of the SPI and register layers, on a real link with a     *)
(* simulated device behind it                                               *)

\* send_byte / receive_byte over the loop-backed link, for every byte
InitSPI ==
    /\ InitCommon
    /\ pin_list = AppPins
    /\ debug_mode = FALSE
    /\ open_fail = 0
    /\ dev = DevInit("loop")
    /\ given \in [d : {0}, r : {0}, v : 0..255]

NextSPI ==
    \/ PortInit
    \/ SPIInit
    \/ GivenSendByte
    \/ DoReceiveByte

SpecSPI == InitSPI /\ [][NextSPI]_vars

\* the register protocol, in both modes of the Port
InitMCP ==
    /\ InitCommon
    /\ pin_list = AppPins
    /\ debug_mode \in BOOLEAN
    /\ open_fail = 0
    /\ dev = DevInit("mcp")
    /\ given = NoArgs

NextMCP ==
    \/ PortInit
    \/ MCPInit
    \/ DoResetDevices
    \/ DoWriteRegister
    \/ DoReadRegister

SpecMCP == InitMCP /\ [][NextMCP]_vars

\* write_register / read_register of one register of the loop-back device
ByteArgs == {90, 165}
GivenRegs ==
    [d : 0..7, r : 0..31, v : ByteArgs] \cup [d : {0, 7}, r : {9, 31}, v : 0..255]

InitRegs ==
    /\ InitCommon
    /\ pin_list = AppPins
    /\ debug_mode = FALSE
    /\ open_fail = 0
    /\ dev = DevInit("mcp")
    /\ given \in GivenRegs

NextRegs ==
    \/ PortInit
    \/ MCPInit
    \/ GivenWriteRegister
    \/ GivenReadRegister

SpecRegs == InitRegs /\ [][NextRegs]_vars

\* transfers entered with the clock high or with bytes still buffered
WireBytes == {0, 1, 90, 128, 165, 178, 254, 255}

InitWire ==
    /\ InitCommon
    /\ pin_list = AppPins
    /\ debug_mode \in BOOLEAN
    /\ open_fail = 0
    /\ dev = DevInit("loop")
    /\ given \in [d : {0}, r : {0}, v : WireBytes]

NextWire ==
    \/ PortInit
    \/ SPIInit
    \/ ClientSetClock
    \/ WireSetPins
    \/ WireSendByte
    \/ WireReceiveByte

SpecWire == InitWire /\ [][NextWire]_vars

\* a client that sends more pin states than the signal history holds, each
\* state different from the 127 before it
HistPins ==
    <<IOPin(0, TRUE, 0), IOPin(1, TRUE, 0), IOPin(3, TRUE, 0), IOPin(4, TRUE, 0),
      IOPin(5, TRUE, 0), IOPin(6, TRUE, 0), IOPin(7, TRUE, 0), IOPin(2, FALSE, 0)>>

InitHistory ==
    /\ InitCommon
    /\ pin_list = HistPins
    /\ debug_mode \in BOOLEAN
    /\ open_fail = 0
    /\ dev = DevInit("loop")
    /\ given = NoArgs

NextHistory ==
    \/ PortInit
    \/ HistSetPins
    \/ HistGetPins

SpecHistory == InitHistory /\ [][NextHistory]_vars

\* the same client on a real link whose first writes may be short
AcceptCounts == {0, 1, 3, TXD_PACKET_MAX}
ShortPlans == UNION {[1..n -> AcceptCounts] : n \in 0..MaxPlan}

InitShort ==
    /\ InitCommon
    /\ pin_list = HistPins
    /\ debug_mode = FALSE
    /\ open_fail = 0
    /\ dev \in {FaultyLink(plan) : plan \in ShortPlans}
    /\ given = NoArgs

NextShort ==
    \/ PortInit
    \/ ShortSetPins
    \/ HistGetPins

SpecShort == InitShort /\ [][NextShort]_vars

\* the same client on a real link that accepts every write in full and
\* keeps what it received
InitStream ==
    /\ InitCommon
    /\ pin_list = HistPins
    /\ debug_mode = FALSE
    /\ open_fail = 0
    /\ dev = FaultyLink(<< >>)
    /\ given = NoArgs

SpecStream == InitStream /\ [][NextShort]_vars

\* the sampler on the application's Port, with the register device behind it
InitRun ==
    /\ InitCommon
    /\ pin_list = AppPins
    /\ debug_mode = FALSE
    /\ open_fail = 0
    /\ dev = DevInit("mcp")
    /\ given = NoArgs

NextRun ==
    \/ PortInit
    \/ MCPInit
    \/ DoRun
    \/ RunSample
    \/ RunFinish

SpecRun == InitRun /\ [][NextRun]_vars

\* the statements of _run_cb follow one another without waiting for anything
\* but the blocking link calls, which return.  The runs started here: one whose
\* samples never agree, the documented example, and one that agrees at once
\* while the 0.02 s never pass.
FairCases ==
    {[sig |-> [pre |-> <<2>>, tail |-> <<1, 2, 3>>], slow |-> 0],
     [sig |-> ExampleSignal, slow |-> 0],
     [sig |-> [pre |-> << >>, tail |-> <<5>>], slow |-> IterationCap]}

DoFairRun ==
    \E o \in Operands, c \in FairCases :
        RunStart(o[1], o[2], o[3], c.sig, c.slow)

NextFair ==
    \/ PortInit
    \/ MCPInit
    \/ DoFairRun
    \/ RunSample
    \/ RunFinish

FairRun ==
    InitRun /\ [][NextFair]_vars /\ WF_vars(RunSample) /\ WF_vars(RunFinish)

\* the post-processing alone, for every raw value
DecodeArgs == {0, 1, 5, 200, 255}
RawValues == 0..(2^9 - 1)

InitDecode ==
    /\ InitLayers
    /\ pin_list = AppPins
    /\ debug_mode = FALSE
    /\ open_fail = 0
    /\ dev = DevInit("mcp")
    /\ given = NoArgs
    /\ \E a \in DecodeArgs, b \in DecodeArgs, is_plus \in BOOLEAN,
          raw \in RawValues :
          run = [NoRun EXCEPT !.pc = "collected", !.a = a, !.b = b,
                             !.is_plus = is_plus, !.l_outvalues = <<raw>>]

NextDecode == RunFinish

SpecDecode == InitDecode /\ [][NextDecode]_vars

\* The post-processing behind an ideal 8-bit adder with carry, for every
\* pair of operands: the adder adds the two bytes written to the output
\* device (lines 64-70) and shows the 9-bit sum on the two registers of the
\* input device, where every sample reads it (lines 78-81).
OperandBytes == 0..(2^8 - 1)

IdealAdder(a, b, is_plus) ==
    LET b_feed == IF is_plus THEN b ELSE 0 - b
    IN  (Low8(a) + Low8(b_feed)) % 2^9

InitIdeal ==
    /\ InitLayers
    /\ pin_list = AppPins
    /\ debug_mode = FALSE
    /\ open_fail = 0
    /\ dev = DevInit("mcp")
    /\ given = NoArgs
    /\ \E a \in OperandBytes, b \in OperandBytes, is_plus \in BOOLEAN :
          \E raw \in {IdealAdder(a, b, is_plus)} :
             run = [NoRun EXCEPT
                      !.pc = "collected", !.a = a, !.b = b, !.is_plus = is_plus,
                      !.signal = [pre |-> << >>, tail |-> <<raw>>],
                      !.l_outvalues = [i \in 1..MinSamples |->
                                         Combine(raw % 256, raw \div 256)]]

SpecIdeal == InitIdeal /\ [][NextDecode]_vars

------------------------------------------------------------------------------
(* Properties of the SPI and register layers *)

\* C5: for every byte v in 0..255, send_byte(v) followed by receive_byte()
\* over the loop-backed link returns v.
C5_SpiRoundTrip ==
    [][(op.name = "send_byte" /\ op.a1 \in 0..255
        /\ op'.name = "receive_byte" /\ nops' = nops + 1)
          => ret' = op.a1]_vars

C5_Witness ==
    /\ op.name = "receive_byte"
    /\ nops = 2
    /\ given.v = 178
    /\ ret = 178

\* C6: for every device d in 0..7, register r in 0..31 and byte v,
\* write_register(d, r, v) followed by read_register(d, r) on the loop-back
\* register device returns v.
C6_RegisterRoundTrip ==
    [][(op.name = "write_register" /\ op.a1 \in 0..7 /\ op.a2 \in 0..31
        /\ op.a3 \in 0..255
        /\ op'.name = "read_register" /\ op'.a1 = op.a1 /\ op'.a2 = op.a2
        /\ nops' = nops + 1)
          => ret' = op.a3]_vars

C6_Witness ==
    /\ op.name = "read_register"
    /\ nops = 2
    /\ given = [d |-> 7, r |-> 31, v |-> 178]
    /\ ret = 178

\* the pin levels before the first byte of the most recent call
LevelBefore ==
    LET n == Len(Stream(log)) IN
    IF Len(signal_history) > n THEN signal_history[Len(signal_history) - n]
    ELSE 0

\* the levels of a pin in the bytes flushed by the most recent call, after the
\* level it had before
Levels(pin_no) ==
    LET st == <<LevelBefore>> \o Stream(log)
    IN  [i \in 1..Len(st) |-> Bit(st[i], pin_no)]

\* positions of the bytes at which the clock rises
RisingEdges == {i \in 2..Len(Levels(spi.ck)) :
                   Levels(spi.ck)[i - 1] = 0 /\ Levels(spi.ck)[i] = 1}

\* the number spelled, most-significant bit first, by data-out at the rising
\* clock edges number from..to of the most recent call
EdgeBits(from, to) ==
    LET e == RisingEdges
        txd == Levels(spi.txd)
        nth[k \in 1..Cardinality(e)] ==
            CHOOSE i \in e : Cardinality({j \in e : j < i}) = k - 1
        f[k \in (from - 1)..to] ==
            IF k < from THEN 0 ELSE 2 * f[k - 1] + txd[nth[k]]
    IN  f[to]

RegisterAccess == op.name \in {"write_register", "read_register"}

\* C8 as stated: after every bus reset the address-enable broadcast has been
\* written before a register access uses a non-zero device address, whatever
\* the sequence of calls.
C8_Original ==
    /\ (RegisterAccess /\ op.a1 % 8 # 0) => monitor.haen
    /\ ~monitor.unaddressed

\* C8: construction makes one bus reset and then exactly one address-enable
\* broadcast write; as long as the client does not reset the bus again with
\* reset_devices(), every register access with a non-zero device address is
\* made with the broadcast sent since the last reset.
C8_EnableAfterConstruction ==
    /\ (op.name = "MCP23S17" /\ mcp.state = "ok") =>
          /\ monitor.resets = 1
          /\ Len(monitor.frames) = 1
          /\ monitor.haen
    /\ client_resets = 0 =>
          /\ mcp.state = "ok" => monitor.haen
          /\ ~monitor.unaddressed
    /\ (op.name = "reset_devices") => (monitor.resets = 1 /\ monitor.frames = << >>)

C8_Witness ==
    /\ op.name = "read_register"
    /\ op.a1 = 5
    /\ client_resets = 0
    /\ monitor.haen
    /\ Len(monitor.frames) = 1
    /\ FrameDev(monitor.frames[1]) = 5

\* the register write made by construction, with its data byte
ConstructionWrites(data) ==
    /\ monitor.resets = 1
    /\ Len(monitor.frames) = 1
    /\ monitor.frames[1].nbits = 24
    /\ monitor.frames[1].opc = 64
    /\ monitor.frames[1].reg = 10
    /\ monitor.frames[1].data = data
    /\ Cardinality(RisingEdges) = 24
    /\ EdgeBits(1, 8) = 64 /\ EdgeBits(9, 16) = 10 /\ EdgeBits(17, 24) = data
    /\ monitor.haen

\* C9 as stated: the one register write of construction goes to the control
\* register of device 0 and sets only the hardware-address-enable bit (bit 3).
C9_Original ==
    (op.name = "MCP23S17" /\ mcp.state = "ok") => ConstructionWrites(2^3)

\* C9: after the reset sequence construction makes exactly one register write,
\* to the control register (0x0A) of device 0, with data byte 0x88: it sets
\* the hardware-address-enable bit (bit 3) and the BANK bit (bit 7) and leaves
\* the other control bits 0.
C9_ControlWrite ==
    (op.name = "MCP23S17" /\ mcp.state = "ok") => ConstructionWrites(2^7 + 2^3)

C9_Witness ==
    /\ op.name = "MCP23S17"
    /\ mcp.state = "ok"
    /\ debug_mode
    /\ monitor.frames[1].data = 136

\* C10: write_register(dev, reg, data) first drives chip-select low, then
\* clocks out exactly three bytes: the opcode 0100 ddd 0 with ddd = dev & 7,
\* reg & 0x1f and data & 0xff, then releases chip-select; chip-select is low
\* from the first byte flushed to the last but one.
C10_WriteFrame ==
    op.name = "write_register" =>
        LET cs == Levels(mcp.cs)
            n == Len(cs)
        IN  /\ n >= 3
            /\ cs[1] = 1
            /\ \A i \in 2..(n - 1) : cs[i] = 0
            /\ cs[n] = 1
            /\ Levels(spi.ck)[2] = 0
            /\ Levels(spi.ck)[n] = 0
            /\ \A i \in 2..n : Levels(mcp.reset)[i] = 1
            /\ Cardinality(RisingEdges) = 24
            /\ EdgeBits(1, 8) = 64 + 2 * (op.a1 % 8)
            /\ EdgeBits(9, 16) = op.a2 % 32
            /\ EdgeBits(17, 24) = op.a3 % 256
            /\ Len(monitor.frames) = 1
            /\ monitor.frames[1].nbits = 24

C10_Witness ==
    /\ op = Call("write_register", 13, 57, 421)
    /\ Len(monitor.frames) = 1
    /\ monitor.frames[1].opc = 74
    /\ monitor.frames[1].reg = 25
    /\ monitor.frames[1].data = 165

------------------------------------------------------------------------------
(* Properties of read_register *)

\* positions in the log of the input reads of the most recent call
ReadIdx == {i \in 1..Len(log) : log[i].t = "read"}

\* number of bytes flushed before event i of the most recent call
BytesBefore(i) == Len(Stream(SubSeq(log, 1, i - 1)))

\* the byte spelled, most-significant bit first, by the level of the pin
\* numbered pin_no in the input reads of the most recent call
ReadValue(pin_no) ==
    LET rd == ReadIdx
        nth[k \in 1..Cardinality(rd)] ==
            CHOOSE i \in rd : Cardinality({j \in rd : j < i}) = k - 1
        f[k \in 0..Cardinality(rd)] ==
            IF k = 0 THEN 0 ELSE 2 * f[k - 1] + Bit(log[nth[k]].val, pin_no)
    IN  f[Cardinality(rd)]

\* C11: read_register(dev, reg) first drives chip-select low, then clocks out
\* the opcode 0100 ddd 1 with ddd = dev & 7 and the register address reg & 0x1f,
\* then makes the eight input reads of one received byte (all of them after
\* the register address has been sent and before chip-select is released, with
\* eight more clock pulses), then releases chip-select, and returns the byte
\* spelled by the eight data-in levels read.
C11_ReadFrame ==
    op.name = "read_register" =>
        LET cs == Levels(mcp.cs)
            n == Len(cs)
        IN  /\ n = 53
            /\ cs[1] = 1
            /\ \A i \in 2..(n - 1) : cs[i] = 0
            /\ cs[n] = 1
            /\ log[1].t = "flush" /\ Len(log[1].data) = 1
            /\ log[Len(log)].t = "flush" /\ Len(log[Len(log)].data) = 1
            /\ Levels(spi.ck)[2] = 0
            /\ Levels(spi.ck)[n] = 0
            /\ Cardinality(RisingEdges) = 24
            /\ EdgeBits(1, 8) = 65 + 2 * (op.a1 % 8)
            /\ EdgeBits(9, 16) = op.a2 % 32
            /\ Cardinality(ReadIdx) = 8
            /\ \A r \in ReadIdx :
                  /\ BytesBefore(r) >= 35
                  /\ BytesBefore(r) < Len(Stream(log))
                  /\ Cardinality({e \in RisingEdges : e <= BytesBefore(r) + 1})
                         = 16 + Cardinality({j \in ReadIdx : j < r})
            /\ ret = ReadValue(spi.rxd)
            /\ ret \in 0..255

C11_Witness ==
    /\ op = Call("read_register", 13, 57, 0)
    /\ ~debug_mode
    /\ ret = 165
    /\ Cardinality(ReadIdx) = 8

------------------------------------------------------------------------------
(* Properties of the construction of the upper layers *)

\* the plane has a pin numbered n that is an output / an input
IsOutputPin(n) == \E i \in 1..Len(pin_list) : pin_list[i].no = n /\ pin_list[i].is_output
IsInputPin(n) == \E i \in 1..Len(pin_list) : pin_list[i].no = n /\ ~pin_list[i].is_output

\* the wiring defects named by the specification, for the five pin numbers of
\* the most recent MCP23S17 construction
WiringDefect ==
    \/ Cardinality({spi.ck, spi.txd, spi.rxd, mcp.cs, mcp.reset}) # 5
    \/ ~IsOutputPin(mcp.cs) \/ ~IsOutputPin(mcp.reset)
    \/ ~IsOutputPin(spi.ck) \/ ~IsOutputPin(spi.txd)
    \/ ~IsInputPin(spi.rxd)

\* C12: construction of the register protocol on a constructed Port raises
\* ValueError when the five pin numbers are not pairwise distinct, when
\* chip-select or reset is not an output pin of the plane, when clock or
\* data-out is not an output pin of the plane or when data-in is not an input
\* pin of the plane; otherwise it succeeds, and the SPI layer with it.
C12_WiringChecked ==
    op.name = "MCP23S17" =>
        /\ WiringDefect => mcp.state = "ValueError"
        /\ ~WiringDefect => (mcp.state = "ok" /\ spi.state = "ok")
        /\ mcp.state \in {"ok", "ValueError"}

C12_Witness ==
    /\ op.name = "MCP23S17"
    /\ mcp.state = "ValueError"
    /\ Cardinality({spi.ck, spi.txd, spi.rxd, mcp.cs, mcp.reset}) = 5
    /\ IsOutputPin(spi.ck) /\ IsOutputPin(spi.txd) /\ IsInputPin(spi.rxd)
    /\ IsOutputPin(mcp.cs)
    /\ IsInputPin(mcp.reset)

\* C16: once the construction of a layer on top of an opened Port has failed,
\* and once the Port has reached the end of its use, the link handle is not
\* left open.
C16_LinkReleased ==
    /\ (mcp.state = "ValueError" \/ spi.state = "ValueError") => ftd # "open"
    /\ port = "deleted" => ftd # "open"

------------------------------------------------------------------------------
(* Properties of opening the link *)

\* C17: on a real link Port construction makes one open attempt and at most
\* MAX_OPEN_RETRY retries.  When every attempt fails it makes exactly
\* 1 + MAX_OPEN_RETRY attempts and raises OSError with no handle and without
\* a reset, configuration or write call on the link; when an attempt within
\* the budget succeeds it makes no attempt after that one and goes on to
\* configure the link with the handle.  In simulation mode no attempt is made.
C17_BoundedOpen ==
    port \in {"ok", "OSError", "deleted"} =>
        /\ open_attempts <= 1 + MAX_OPEN_RETRY
        /\ debug_mode => (open_attempts = 0 /\ port # "OSError")
        /\ (~debug_mode /\ open_fail > MAX_OPEN_RETRY) =>
              /\ port = "OSError"
              /\ open_attempts = 1 + MAX_OPEN_RETRY
              /\ ftd = "none"
              /\ link_calls = << >>
              /\ log = << >>
              /\ signal_history = << >>
        /\ (~debug_mode /\ open_fail <= MAX_OPEN_RETRY) =>
              /\ port # "OSError"
              /\ open_attempts = open_fail + 1
              /\ ftd # "none"
              /\ Len(link_calls) = 4
              /\ link_calls[1][1] = "resetDevice"
              /\ link_calls[4] = <<"setBitMode", output_pins, 1>>

C17_Witness ==
    /\ port = "OSError"
    /\ pin_list = AppPins
    /\ open_fail = 1 + MAX_OPEN_RETRY
    /\ open_attempts = 1 + MAX_OPEN_RETRY
    /\ link_calls = << >>

------------------------------------------------------------------------------
(* Properties of get_pins *)

\* the snapshot consulted by the most recent get_pins call
Snapshot == log[Len(log)].val

\* C18: get_pins sets the value of every input pin numbered i to bit i of the
\* input snapshot (the injected byte in simulation mode, the pin levels read
\* from the link otherwise) and leaves every output pin as it was, whatever
\* the snapshot bit of its number is.
C18_InputsFromSnapshot ==
    [][(op'.name = "get_pins" /\ nops' = nops + 1) =>
          /\ Len(log') >= 1
          /\ log'[Len(log')].t = "read"
          /\ debug_mode => log'[Len(log')].val = debug_read_data
          /\ Len(pin_list') = Len(pin_list)
          /\ \A i \in 1..Len(pin_list) :
                IF pin_list[i].is_output
                THEN pin_list'[i] = pin_list[i]
                ELSE pin_list'[i] =
                         [pin_list[i] EXCEPT
                             !.value = Bit(log'[Len(log')].val, pin_list[i].no)]]_vars

C18_Witness ==
    /\ op.name = "get_pins"
    /\ debug_mode
    /\ nsets = 0
    /\ Snapshot = 253
    /\ pin_list[PinIndex(pin_list, 2)].value = 1
    /\ pin_list[PinIndex(pin_list, 0)].value = 0
    /\ pin_list[PinIndex(pin_list, 3)].value = 1

------------------------------------------------------------------------------
(* Properties of send_byte *)

\* the flushes of the most recent call, in order
Flushes == SelectSeq(log, LAMBDA ev : ev.t = "flush")

\* C19: the last 17 pin states flushed by send_byte(value) are, for the bit
\* positions 7 down to 0 in that order, a state with the clock low and
\* data-out equal to the bit of value and a state with the clock high and the
\* same data-out, followed by a state with the clock low; the clock rises
\* exactly at the 8 clock-high states, where data-out spells value
\* most-significant bit first; the other output pins keep their levels.
C19_SendByteStates ==
    op.name = "send_byte" =>
        LET st == Stream(log)
            n == Len(st)
            lo(k) == st[n - 16 + 2 * k]
            hi(k) == st[n - 15 + 2 * k]
            spelled[k \in -1..7] ==
                IF k < 0 THEN 0 ELSE 2 * spelled[k - 1] + Bit(hi(k), spi.txd)
        IN  /\ n >= 17
            /\ \A k \in 0..7 :
                  /\ Bit(lo(k), spi.ck) = 0
                  /\ Bit(lo(k), spi.txd) = Bit(op.a1, 7 - k)
                  /\ Bit(hi(k), spi.ck) = 1
                  /\ Bit(hi(k), spi.txd) = Bit(lo(k), spi.txd)
                  /\ hi(k) = lo(k) + 2^(spi.ck)
            /\ Bit(st[n], spi.ck) = 0
            /\ st[n] = lo(7)
            /\ spelled[7] = op.a1 % 256
            /\ \A j \in (n - 16)..n : \A b \in 0..7 :
                  b \notin {spi.ck, spi.txd} => Bit(st[j], b) = Bit(st[n], b)
            /\ txd_buf = << >>
            /\ pin_list[PinIndex(pin_list, spi.ck)].value = 0

C19_Witness ==
    /\ op = Call("send_byte", 165, 0, 0)
    /\ ~debug_mode
    /\ Len(Stream(log)) = 18
    /\ Bit(Stream(log)[2], spi.txd) = 1
    /\ Bit(Stream(log)[4], spi.txd) = 0

\* a send_byte call entered with an empty transmit buffer and the clock low
IdleSendByte ==
    /\ op'.name = "send_byte"
    /\ nops' = nops + 1
    /\ txd_buf = << >>
    /\ pin_list[PinIndex(pin_list, spi.ck)].value = 0

\* C20 as stated: send_byte entered with an empty transmit buffer and the
\* clock low makes exactly one flush, at the end, carrying the 16 pin states
\* of the 8 bits together with the closing clock-low state.
C20_Original ==
    [][IdleSendByte =>
          /\ Len(log') = 1
          /\ log'[1].t = "flush"
          /\ Len(log'[1].data) = 17]_vars

\* C20: send_byte entered with an empty transmit buffer and the clock low
\* makes exactly two flushes (two link writes on a real link): the 16 pin
\* states of the 8 bits are sent when the buffer reaches TXD_PACKET_MAX, at
\* the last set_pins of the bit loop, and the closing clock-low state is sent
\* alone by the final flush; nothing is read and the buffer ends empty.
C20_TwoFlushes ==
    [][IdleSendByte =>
          /\ Len(log') = 2
          /\ log'[1].t = "flush" /\ log'[2].t = "flush"
          /\ Len(log'[1].data) = TXD_PACKET_MAX
          /\ Len(log'[2].data) = 1
          /\ Bit(log'[1].data[TXD_PACKET_MAX], spi.ck) = 1
          /\ Bit(log'[2].data[1], spi.ck) = 0
          /\ log'[1].link = ~debug_mode /\ log'[2].link = ~debug_mode
          /\ txd_buf' = << >>]_vars

C20_Witness ==
    /\ op = Call("send_byte", 90, 0, 0)
    /\ ~debug_mode
    /\ Len(Flushes) = 2
    /\ Len(log) = 2
    /\ Len(log[1].data) = TXD_PACKET_MAX
    /\ log[1].link /\ log[2].link

------------------------------------------------------------------------------
(* Properties of the convergence sampler *)

\* the samples the circuit's signal gives at the reads 1..n
Expected(sig, n) ==
    [k \in 1..n |-> Combine(SignalAt(sig, k) % 256, SignalAt(sig, k) \div 256)]

\* the stop condition at sample k of the samples l: the minimum elapsed time
\* has passed, at least 5 samples are collected, and sample k equals the
\* samples 2 and 4 places before it
Agree(l, k) ==
    /\ k > run.slow
    /\ k >= 5
    /\ l[k] = l[k - 2]
    /\ l[k] = l[k - 4]

\* C13: polling goes on as long as no sample index satisfies the stop
\* condition and ends at the first index that does (or at the iteration cap);
\* two equal consecutive samples do not end it.  For the values
\* 1,2,2,3,2,5,5,5,... it ends at the first index whose sample equals those 2
\* and 4 places before it, which is the tenth sample.
C13_StopsAtFirstAgreement ==
    LET l == run.l_outvalues
        n == Len(l)
    IN  /\ run.pc = "polling" => \A k \in 1..n : ~Agree(l, k)
        /\ run.pc \in {"collected", "done"} =>
              /\ n >= 1
              /\ \A k \in 1..(n - 1) : ~Agree(l, k)
              /\ run.stopped <=> Agree(l, n)
              /\ ~run.stopped => n = IterationCap
        /\ (run.pc \in {"collected", "done"} /\ run.signal = ExampleSignal
              /\ run.slow < IterationCap) =>
              /\ run.stopped
              /\ l = <<1, 2, 2, 3, 2, 5, 5, 5, 5, 5>>

C13_Witness ==
    /\ run.pc = "done"
    /\ run.signal = ExampleSignal
    /\ run.slow = 0
    /\ run.stopped
    /\ Len(run.l_outvalues) = 10
    /\ run.l_outvalues[2] = run.l_outvalues[3]

\* C14: every run of the sampler ends, whatever values the input device
\* returns; it collects at least 1 and at most 40 samples, which are the
\* values read, in read order; and the raw value reported is the last sample
\* collected, whether or not the stop condition was met.
C14_Terminates ==
    /\ [](/\ Len(run.l_outvalues) <= IterationCap
          /\ run.l_outvalues = Expected(run.signal, Len(run.l_outvalues))
          /\ run.pc \in {"collected", "done"} => Len(run.l_outvalues) >= 1
          /\ run.pc = "done" =>
                run.raw_y = run.l_outvalues[Len(run.l_outvalues)])
    /\ (run.pc = "polling") ~> (run.pc = "done")

C14_Witness ==
    /\ run.pc = "done"
    /\ ~run.stopped
    /\ run.slow = 0
    /\ Len(run.l_outvalues) = IterationCap
    /\ run.raw_y = run.l_outvalues[IterationCap]
    /\ run.l_outvalues[IterationCap] # run.l_outvalues[1]

\* two's complement of the low 8 bits of raw, as a negative number
Negated(raw) == -((2^8 - raw) % 2^8)

\* C15 as stated: the decoded value is -((2^8 - raw) mod 2^8) for a
\* subtraction with a - b < 0 and the low 8 bits of raw in every other case.
C15_Original ==
    run.pc = "done" =>
        run.y = IF ~run.is_plus /\ run.a - run.b < 0
                THEN Negated(run.raw_y) ELSE run.raw_y % 2^8

\* C15: the decoded value is -((2^8 - raw) mod 2^8) for a subtraction with
\* a - b < 0, the low 8 bits of raw for a subtraction with a - b >= 0, and
\* the raw 9-bit value itself, carry bit included, for an addition.
C15_Decoded ==
    run.pc = "done" =>
        /\ run.raw_y = run.l_outvalues[Len(run.l_outvalues)]
        /\ run.y = IF run.is_plus THEN run.raw_y
                   ELSE IF run.a - run.b < 0 THEN Negated(run.raw_y)
                   ELSE run.raw_y % 2^8

C15_Witness ==
    /\ run.pc = "done"
    /\ ~run.is_plus
    /\ run.a = 1 /\ run.b = 5
    /\ run.raw_y = 508
    /\ run.y = -4

------------------------------------------------------------------------------
(* Properties of receive_byte *)

\* position in the log of the k-th input read of the most recent call
NthRead(k) == CHOOSE i \in ReadIdx : Cardinality({j \in ReadIdx : j < i}) = k - 1

\* the bytes flushed after the k-th input read and before the next one (or
\* the end of the call)
BytesAfterRead(k) ==
    Stream(SubSeq(log, NthRead(k) + 1,
                  IF k < Cardinality(ReadIdx) THEN NthRead(k + 1) - 1
                  ELSE Len(log)))

\* the clock levels of a sequence of pin states
ClockOf(bytes) == [i \in 1..Len(bytes) |-> Bit(bytes[i], spi.ck)]

\* position of the clock pin in the pin list
CkIndex == PinIndex(pin_list, spi.ck)

\* the pin states sent before the first input read of the most recent call
PreRead == Stream(SubSeq(log, 1, NthRead(1) - 1))

\* a call of receive_byte
ReceiveCalled == op'.name = "receive_byte" /\ nops' = nops + 1

EventsAfterRead(k) ==
    SubSeq(log, NthRead(k) + 1,
           IF k < Cardinality(ReadIdx) THEN NthRead(k + 1) - 1 ELSE Len(log))

\* C22 as stated: in receive_byte each of the 8 bits makes two flushes after
\* its read, the clock-high state on its own and then the clock-low state on
\* its own.
C22_Original ==
    op.name = "receive_byte" =>
        \A k \in 1..8 :
            LET ev == EventsAfterRead(k)
            IN  /\ Len(ev) = 2
                /\ ev[1].t = "flush" /\ ev[2].t = "flush"
                /\ Bit(ev[1].data[Len(ev[1].data)], spi.ck) = 1
                /\ ClockOf(ev[2].data) = <<0>>

\* C22: in receive_byte each of the 8 bits makes one flush after its read:
\* the clock-high state is only buffered and is sent together with the
\* clock-low state, as the last two pin states of that flush; on a real link
\* it is one link write of exactly these two states.
C22_OneFlushPerBit ==
    op.name = "receive_byte" =>
        \A k \in 1..8 :
            LET ev == EventsAfterRead(k)
                n == Len(ev[1].data)
            IN  /\ Len(ev) = 1
                /\ ev[1].t = "flush"
                /\ ev[1].link = ~debug_mode
                /\ n >= 2
                /\ Bit(ev[1].data[n - 1], spi.ck) = 1
                /\ Bit(ev[1].data[n], spi.ck) = 0
                /\ ev[1].data[n - 1] = ev[1].data[n] + 2^(spi.ck)
                /\ ~debug_mode => n = 2

C22_Witness ==
    /\ op = Call("receive_byte", 0, 0, 0)
    /\ ~debug_mode
    /\ Len(Flushes) = 9
    /\ log[1].t = "flush"
    /\ \A i \in 3..Len(log) : log[i].t = "flush" => Len(log[i].data) = 2

------------------------------------------------------------------------------
(* The idle level of the SPI clock *)

\* a transfer entered with the clock pin at 1
EnteredHigh ==
    /\ op'.name \in {"send_byte", "receive_byte"}
    /\ nops' = nops + 1
    /\ pin_list[CkIndex].value = 1

\* C23: after SPI construction and after every send_byte and receive_byte the
\* clock pin is 0 and the last pin state sent has the clock low; a transfer
\* entered with the clock pin at 1 completes, and the first thing it does is
\* send the pin state with only the clock changed to 0 (behind whatever was
\* buffered), before any data bit is driven or any input read is made.
C23_ClockIdle ==
    /\ [](op.name \in {"SPI", "send_byte", "receive_byte"} /\ spi.state = "ok" =>
            /\ pin_list[CkIndex].value = 0
            /\ Len(Stream(log)) >= 1
            /\ Bit(Stream(log)[Len(Stream(log))], spi.ck) = 0
            /\ log[Len(log)].t = "flush")
    /\ [][EnteredHigh =>
            /\ spi'.state = "ok"
            /\ log'[1].t = "flush"
            /\ log'[1].data =
                  txd_buf \o <<AssembleWriteData(
                                  [pin_list EXCEPT ![CkIndex].value = 0])>>
            /\ Len(Stream(log')) =
                  Len(txd_buf) + 1 + (IF op'.name = "send_byte" THEN 17 ELSE 16)
            /\ op'.name = "receive_byte" => log'[2].t = "read"
            /\ pin_list'[CkIndex].value = 0]_vars

C23_Witness ==
    /\ op = Call("send_byte", 90, 0, 0)
    /\ debug_mode
    /\ Len(log[1].data) = 2
    /\ ClockOf(log[1].data) = <<1, 0>>
    /\ Len(Stream(log)) = 19
    /\ pin_list[CkIndex].value = 0

------------------------------------------------------------------------------
(* The signal history *)

\* the pin state assembled at the v-th set_pins call of the client of
\* SpecHistory (v = 0: the push that ends Port construction)
HistByte(v) == AssembleWriteData(ClientValues(HistPins, v))

\* number of pin states flushed so far in SpecHistory
HistSent == nops + 1 - Len(txd_buf)

\* C24: the signal history never holds more than SIGNAL_LOG_SIZE = 100
\* entries, and it is the most recent min(100, number flushed) pin states
\* flushed, in the order they were flushed.
C24_HistoryRecent ==
    port = "ok" =>
        LET n == IF HistSent < SIGNAL_LOG_SIZE THEN HistSent ELSE SIGNAL_LOG_SIZE
        IN  /\ Len(signal_history) <= SIGNAL_LOG_SIZE
            /\ Len(signal_history) = n
            /\ \A i \in 1..n : signal_history[i] = HistByte(HistSent - n + i - 1)
            /\ \A i \in 1..Len(txd_buf) : txd_buf[i] = HistByte(HistSent + i - 1)

C24_Witness ==
    /\ port = "ok"
    /\ nops = SIGNAL_LOG_SIZE + 4
    /\ Len(txd_buf) = 2
    /\ Len(signal_history) = SIGNAL_LOG_SIZE
    /\ signal_history[1] = HistByte(3)
    /\ signal_history[SIGNAL_LOG_SIZE] = HistByte(102)
    /\ HistByte(3) # HistByte(102)

------------------------------------------------------------------------------
(* Short writes *)

\* the pin states assembled by the calls numbered from..to of the client
HistBytes(from, to) == [i \in 1..(to - from + 1) |-> HistByte(from + i - 1)]

\* C25: on a link that reports short writes every call still completes; a
\* flush leaves the transmit buffer empty whether or not the write was short
\* (the buffer only ever holds the pin states assembled since the last
\* flush); each link write requests exactly the pin states assembled since
\* the previous flush, the link receives the accepted prefix of it, and so a
\* pin state the link did not accept is in no later write.
C25_ShortWriteDropped ==
    /\ [](port = "ok" =>
            /\ op.name \in {"Port", "set_pins", "get_pins"}
            /\ Len(txd_buf) < TXD_PACKET_MAX
            /\ txd_buf = HistBytes(nops - Len(txd_buf) + 1, nops)
            /\ (op.name \in {"Port", "get_pins"} \/ op.a1 = 1) => txd_buf = << >>)
    /\ [][port = "ok" /\ Len(Flushes') > 0 =>
            /\ Len(Flushes') = 1
            /\ Flushes'[1].data = HistBytes(nops - Len(txd_buf) + 1, nops')
            /\ txd_buf' = << >>
            /\ \E n \in 0..Len(Flushes'[1].data) :
                  /\ n = LinkAccepts(dev, Flushes'[1].data)
                  /\ dev'.rx = dev.rx \o SubSeq(Flushes'[1].data, 1, n)]_vars

C25_Witness ==
    /\ port = "ok"
    /\ op = Call("set_pins", 1, 17, 0)
    /\ txd_buf = << >>
    /\ dev.rx = <<HistByte(1), HistByte(2), HistByte(3), HistByte(17)>>
    /\ HistByte(17) \notin {HistByte(v) : v \in 0..16}

------------------------------------------------------------------------------
(* Constructors that fail with a configuration error *)

\* a step in which Port construction raises ValueError
PortRejects == port = "new" /\ port' = "ValueError"

\* a step in which SPI or MCP23S17 construction raises ValueError
LayerRejects ==
    /\ op'.name \in {"SPI", "MCP23S17"}
    /\ spi.state = "none" /\ mcp.state = "none"
    /\ spi'.state = "ValueError" \/ mcp'.state = "ValueError"

\* C26: Port construction that raises ValueError has made no open attempt and
\* no call on the link; SPI or MCP23S17 construction that raises ValueError
\* has changed no pin value, has buffered and flushed no pin state, has not
\* touched the device behind the link, and has built neither layer.
C26_NoEffectOnFailure ==
    /\ [][PortRejects =>
            /\ ftd' = "none"
            /\ open_attempts' = 0
            /\ link_calls' = << >>
            /\ log' = << >>
            /\ txd_buf' = << >> /\ signal_history' = << >>
            /\ dev' = dev]_vars
    /\ [][LayerRejects =>
            /\ pin_list' = pin_list
            /\ txd_buf' = txd_buf
            /\ signal_history' = signal_history
            /\ log' = << >>
            /\ dev' = dev
            /\ ftd' = ftd
            /\ spi'.state # "ok" /\ mcp'.state # "ok"]_vars

C26_Witness ==
    /\ op.name = "MCP23S17"
    /\ ~debug_mode
    /\ mcp.state = "ValueError" /\ spi.state = "ValueError"
    /\ IsOutputPin(mcp.cs) /\ IsOutputPin(mcp.reset)
    /\ log = << >>
    /\ Len(signal_history) = 1
    /\ dev.resets = 0

------------------------------------------------------------------------------
(* The byte assembled by set_pins *)

\* the pin state appended by the set_pins call of this step: the last one
\* buffered, or the last one flushed when the call flushed
AppendedByte ==
    IF Len(txd_buf') > 0 THEN txd_buf'[Len(txd_buf')]
    ELSE Stream(log')[Len(Stream(log'))]

\* C27: the byte set_pins appends to the transmit buffer has bit i set iff
\* the plane has an output pin numbered i whose value is 1; the bits of input
\* pins and of numbers no pin has are 0, whatever the input pins hold.
C27_AssembledByte ==
    [][op'.name = "set_pins" /\ nops' = nops + 1 =>
          /\ pin_list' = pin_list
          /\ \A i \in 0..7 :
                Bit(AppendedByte, i) = 1 <=>
                    \E j \in 1..Len(pin_list) :
                        /\ pin_list[j].no = i
                        /\ pin_list[j].is_output
                        /\ pin_list[j].value = 1
          /\ AppendedByte \in 0..255]_vars

C27_Witness ==
    /\ op = Call("set_pins", 0, 0, 0)
    /\ nsets = 0
    /\ debug_mode
    /\ pin_list[5] = [pin_rd EXCEPT !.value = 1]
    /\ Len(txd_buf) > 0
    /\ Bit(txd_buf[Len(txd_buf)], 2) = 0
    /\ Bit(txd_buf[Len(txd_buf)], 3) = 1

------------------------------------------------------------------------------
(* The register traffic of a sampler run *)

\* the second operand as it is fed to the adder
SecondOperand ==
    IF run.is_plus THEN run.b % 256 ELSE (256 - (run.b % 256)) % 256

\* a completed 24-bit write frame to device d, register r, with byte v
IsWriteFrame(fr, d, r, v) ==
    /\ fr.nbits = 24
    /\ fr.opc = 64 + 2 * d
    /\ fr.reg = r
    /\ fr.data = v

\* a completed 24-bit read frame from device d, register r
IsReadFrame(fr, d, r) ==
    /\ fr.nbits = 24
    /\ fr.opc = 65 + 2 * d
    /\ fr.reg = r

\* C28: when a sampler run has written its operands, the register device has
\* received exactly two complete frames (chip-select released after each), in
\* this order: a write of a mod 256 to register 0x09 of device 0 and a write
\* of the second operand (b mod 256 for addition, (-b) mod 256 for
\* subtraction) to register 0x19 of device 0, and no sample has been read
\* yet; every sample of the polling loop makes exactly two frames, both reads
\* of device 1, and the two registers of device 0 keep the operands.
C28_OperandsThenReads ==
    /\ op.name = "_run_cb" =>
          /\ Len(dev.frames) = 2
          /\ IsWriteFrame(dev.frames[1], OUT_DEVICE, 9, run.a % 256)
          /\ IsWriteFrame(dev.frames[2], OUT_DEVICE, 25, SecondOperand)
          /\ dev.fr = NoFrame
          /\ Bit(dev.prev, mcp.cs) = 1
          /\ run.l_outvalues = << >>
          /\ \A e \in DOMAIN log : log[e].t = "flush"
    /\ op.name \in {"_run_cb", "sample", "set_output_value"} =>
          /\ MemRead(dev.mem, OUT_DEVICE, 9) = run.a % 256
          /\ MemRead(dev.mem, OUT_DEVICE, 25) = SecondOperand
    /\ op.name = "sample" =>
          /\ Len(dev.frames) = 2
          /\ IsReadFrame(dev.frames[1], IN_DEVICE, 9)
          /\ IsReadFrame(dev.frames[2], IN_DEVICE, 25)
          /\ Bit(dev.prev, mcp.cs) = 1

C28_Witness ==
    /\ op.name = "sample"
    /\ ~run.is_plus
    /\ run.b = 5
    /\ MemRead(dev.mem, OUT_DEVICE, 25) = 251
    /\ Len(run.l_outvalues) = 3

------------------------------------------------------------------------------
(* Buffering against the stream of pin states *)

\* C29: on a real link that accepts every write in full, the bytes the link
\* has received so far followed by the transmit buffer are the pin states
\* assembled by all set_pins calls so far (the one that ends Port
\* construction included), in call order: none dropped, repeated or
\* reordered by buffering, by the flush at the packet limit, by an explicit
\* flush or by the flush inside get_pins.
C29_StreamPreserved ==
    port = "ok" =>
        /\ dev.rx \o txd_buf = HistBytes(0, nops)
        /\ Len(txd_buf) < TXD_PACKET_MAX
        /\ op.name = "get_pins" => txd_buf = << >>

C29_Witness ==
    /\ port = "ok"
    /\ op = Call("get_pins", 0, 0, 0)
    /\ nops = 18
    /\ Len(dev.rx) = 19
    /\ Len(log) = 2
    /\ Len(log[1].data) = 2

------------------------------------------------------------------------------
(* End to end with an ideal adder *)

\* C30: when every sample is the sum an ideal adder forms of the two bytes
\* written to the output device, the value reported for operands a and b in
\* 0..255 is a + b for an addition and a - b for a subtraction.
C30_IdealAdder ==
    run.pc = "done" =>
        /\ run.raw_y = IdealAdder(run.a, run.b, run.is_plus)
        /\ run.y = IF run.is_plus THEN run.a + run.b ELSE run.a - run.b

C30_Witness ==
    /\ run.pc = "done"
    /\ ~run.is_plus
    /\ run.a = 0 /\ run.b = 255
    /\ run.raw_y = 1
    /\ run.y = -255

=============================================================================
